---------------------------- MODULE Spec2Model ----------------------------
(***************************************************************************)
(* A model of the PharmaLync backend's trust subsystem: consent tokens,    *)
(* two-tier audit logging, the medicine dispensing workflow, session       *)
(* tokens and the QR token codec.  Each subsystem has its own              *)
(* specification (SpecConsent, SpecAudit, ...) over the shared variables;  *)
(* a specification leaves the variables of the other subsystems at their   *)
(* initial value.                                                          *)
(***************************************************************************)
EXTENDS Integers, Sequences, FiniteSets, TLC

VARIABLES
    now,              \* the wall clock (Date.now()), in minutes
    consents,         \* prisma.consent: id -> row
    issued,           \* consent tokens returned by generateConsentToken
    vcalls,           \* in-flight / finished verifyConsentToken calls
    revokeCompleted,  \* ids for which revokeConsent has returned
    lastGrant,        \* the latest response of POST /api/consent/grant
    ledgerConfigured, \* BlockchainService.pharmalyncAudit is defined
    auditLogs,        \* prisma.auditLog: id -> row
    auditSeq,         \* number of rows created so far (ids are fresh)
    auditReturned,    \* ids that logAudit has returned to its caller
    submission,       \* id -> progress of logCriticalAudit for that entry
    pendingTx,        \* logAudit transactions sent and not yet mined
    chainAudit,       \* PharmaLyncAudit.auditRecords: auditId -> record
    ledgerIssued,     \* auditId -> the reference the ledger returned for it
    errorLog,         \* ids whose ledger failure was written to the console
    integrity,        \* the latest verifyAuditIntegrity call and its result
    coreConfigured,   \* BlockchainService.pharmalyncCore is defined
    pharmacyRole,     \* the service wallet holds PHARMACY_ROLE on the contract
    medicineCounter,  \* PharmaLyncCore.medicineCounter
    chainDispensed,   \* ids whose PharmaLyncCore.medicines[id].dispensed is true
    medicineRows,     \* prisma.medicine: row id -> blockchainId
    dreqs,            \* in-flight POST /api/medicines/:id/dispense requests
    dispenseSeq,      \* number of dispense requests received so far
    successes,        \* blockchainId -> number of 200 responses for it
    everDispensed,    \* ids that have been seen dispensed on the contract
    sessionTokens,    \* tokens returned by generateAccessToken / RefreshToken
    authCheck,        \* the latest verifyAccessToken / verifyRefreshToken call
    qrCreated,        \* the token generateSecureToken returned, and its input
    qrCall,           \* the verifyToken call in progress, or its outcome
    lastRevoke,       \* the latest POST /api/consent/revoke and its response
    lastRequest,      \* the latest request to an audited route and its response
    boot,             \* process.env and how far the start of the server has got
    pii,              \* a field encryptPII returned and the latest decryptPII of it
    batch,            \* the latest encryptFields and decryptFields calls
    idCalls,          \* the calls of the AadhaarService made so far, with results
    schemaUnique,     \* prisma's schema declares Patient.aadhaarHash @unique
    patients,         \* prisma.patient: the rows, in the order of creation
    creates,          \* request -> progress of its POST /api/patients
    lastView,         \* the latest GET /api/patients/:id/aadhaar past its checks
    pwCall,           \* a hashPassword call and the latest verifyPassword on it
    lastCheck         \* the latest checkConsent call, the store it read, its answer

consentVars == <<now, consents, issued, vcalls, revokeCompleted, lastGrant>>
consentState == <<consents, issued, vcalls, revokeCompleted, lastGrant>>
auditState == <<ledgerConfigured, auditLogs, auditSeq, auditReturned, submission,
                pendingTx, chainAudit, ledgerIssued, errorLog, integrity>>

dispenseState == <<coreConfigured, pharmacyRole, medicineCounter, chainDispensed,
                   medicineRows, dreqs, dispenseSeq, successes, everDispensed>>
authState == <<sessionTokens, authCheck>>
qrState == <<qrCreated, qrCall>>
patientState == <<schemaUnique, patients, creates, lastView>>
appState == <<boot, pii, batch, idCalls, patientState, pwCall, lastCheck>>
routeState == <<lastRevoke, lastRequest, appState>>
coreState == <<now, consentState, auditState, dispenseState, authState, qrState,
               lastRevoke, lastRequest>>
extState == <<dispenseState, authState, qrState, routeState>>

vars == <<now, consentState, auditState, extState>>

(***************************************************************************)
(* Bounds of the model.                                                    *)
(***************************************************************************)
MaxTime == 3
MaxConsents == 2
MaxAudit == 2

(***************************************************************************)
(* JSON web tokens (the jsonwebtoken library as the services use it).      *)
(* A signature is the keyed hash of the claims: it is valid for exactly    *)
(* the claims it was computed over and the key it was computed with.       *)
(***************************************************************************)
NoClaim == "absent"

HmacSign(secret, claims) == [key |-> secret, over |-> claims]

JwtSign(payload, secret, ttl, issuer, audience, t) ==
    LET claims == [payload |-> payload, iat |-> t, exp |-> t + ttl,
                   iss |-> issuer, aud |-> audience]
    IN  [kind |-> "jwt", alg |-> "HS256", claims |-> claims,
         sig |-> HmacSign(secret, claims)]

\* jwt.verify(token, secret, {issuer, audience, algorithms: ['HS256']}) at
\* time t: "ok", "TokenExpiredError" or "JsonWebTokenError", with the
\* library's order of checks (structure, algorithm, signature, exp,
\* audience, issuer).
JwtVerify(token, secret, issuer, audience, t) ==
    IF token.kind # "jwt" THEN "JsonWebTokenError"
    ELSE IF token.alg # "HS256" THEN "JsonWebTokenError"
    ELSE IF token.sig # HmacSign(secret, token.claims) THEN "JsonWebTokenError"
    ELSE IF t >= token.claims.exp THEN "TokenExpiredError"
    ELSE IF token.claims.aud # audience THEN "JsonWebTokenError"
    ELSE IF token.claims.iss # issuer THEN "JsonWebTokenError"
    ELSE "ok"

(***************************************************************************)
(* ConsentService (backend/src/services/consent.service.ts) and the        *)
(* consent routes.                                                         *)
(***************************************************************************)
ConsentScope == {"VIEW_MEDICAL_RECORDS", "VIEW_AADHAAR", "UPDATE_RECORDS"}
CONSENT_TOKEN_SECRET == "CONSENT_TOKEN_SECRET"
MAX_EXPIRY_MINUTES == 1440

Patients == {"p1"}
Users == {"d1"}
\* Requests the model sends: scope lists and lifetimes, valid and invalid.
GrantScopeChoices == {{}, {"VIEW_AADHAAR"}, {"VIEW_MEDICAL_RECORDS", "VIEW_AADHAAR"}}
TtlChoices == {1, MAX_EXPIRY_MINUTES + 1}
RequiredChoices == {{"VIEW_AADHAAR"}, {"VIEW_MEDICAL_RECORDS", "VIEW_AADHAAR"}}
\* The callers of verifyConsentToken (the requireConsent middleware of a request).
Callers == {"request-1"}

ConsentIds == 1..MaxConsents

\* A schema without the upper limit on expiryMinutes.
GrantRequestValidNoMax(scopes, expiryMinutes) ==
    /\ scopes \subseteq ConsentScope
    /\ Cardinality(scopes) >= 1
    /\ expiryMinutes >= 1

\* grantConsentSchema: scopes is a non-empty list of ConsentScope values,
\* expiryMinutes lies in 1..1440.
GrantRequestValid(scopes, expiryMinutes) ==
    /\ scopes \subseteq ConsentScope
    /\ Cardinality(scopes) >= 1
    /\ expiryMinutes >= 1
    /\ expiryMinutes <= MAX_EXPIRY_MINUTES

ConsentPayload(id, patientId, grantedTo, scopes, expiresAt) ==
    [consentId |-> id, patientId |-> patientId, grantedTo |-> grantedTo,
     scopes |-> scopes, expiresAt |-> expiresAt]

NoPayload == ConsentPayload(0, "none", "none", {}, 0)
NoRow == [id |-> 0, patientId |-> "none", grantedTo |-> "none", scopes |-> {},
          expiresAt |-> 0, revoked |-> FALSE]

\* A string that is no JWT at all.
GarbageToken ==
    [kind |-> "garbage", alg |-> "none",
     claims |-> [payload |-> NoPayload, iat |-> 0, exp |-> 0,
                 iss |-> NoClaim, aud |-> NoClaim],
     sig |-> [key |-> "none",
              over |-> [payload |-> NoPayload, iat |-> 0, exp |-> 0,
                        iss |-> NoClaim, aud |-> NoClaim]]]

\* An issued token whose claims were edited by the bearer (all scopes, a
\* later expiry) without the secret: the signature is the old one.
Tampered(token) ==
    [token EXCEPT !.claims.payload.scopes = ConsentScope,
                  !.claims.payload.expiresAt = MaxTime + 1,
                  !.claims.exp = MaxTime + 1]

PresentableTokens ==
    issued \cup {Tampered(t) : t \in issued} \cup {GarbageToken}

NoResult == [valid |-> FALSE, error |-> "pending", consentId |-> 0,
             patientId |-> "none", grantedTo |-> "none", scopes |-> {}]
Failure(reason) == [NoResult EXCEPT !.error = reason]

IdleCall == [pc |-> "idle", token |-> GarbageToken, required |-> {},
             live |-> FALSE, afterRevoke |-> FALSE,
             found |-> FALSE, row |-> NoRow, checkedAt |-> 0,
             result |-> NoResult]

\* Mutants of ConsentChecks: the persisted expiry is not checked; the expiry
\* is checked before the revocation.
ConsentChecksNoExpiry(found, row, requiredScopes, t) ==
    IF ~found THEN Failure("Consent not found")
    ELSE IF row.revoked THEN Failure("Consent has been revoked")
    ELSE IF ~(\A scope \in requiredScopes : scope \in row.scopes)
         THEN Failure("Insufficient consent scopes")
    ELSE [valid |-> TRUE, error |-> "none", consentId |-> row.id,
          patientId |-> row.patientId, grantedTo |-> row.grantedTo,
          scopes |-> row.scopes]

ConsentChecksExpiryFirst(found, row, requiredScopes, t) ==
    IF ~found THEN Failure("Consent not found")
    ELSE IF t > row.expiresAt THEN Failure("Consent has expired")
    ELSE IF row.revoked THEN Failure("Consent has been revoked")
    ELSE IF ~(\A scope \in requiredScopes : scope \in row.scopes)
         THEN Failure("Insufficient consent scopes")
    ELSE [valid |-> TRUE, error |-> "none", consentId |-> row.id,
          patientId |-> row.patientId, grantedTo |-> row.grantedTo,
          scopes |-> row.scopes]

\* verifyConsentToken lines 90-118: the checks on the row findUnique
\* returned (found = FALSE: null), evaluated at time t.
ConsentChecks(found, row, requiredScopes, t) ==
    IF ~found THEN Failure("Consent not found")
    ELSE IF row.revoked THEN Failure("Consent has been revoked")
    ELSE IF t > row.expiresAt THEN Failure("Consent has expired")
    ELSE IF ~(\A scope \in requiredScopes : scope \in row.scopes)
         THEN Failure("Insufficient consent scopes")
    ELSE [valid |-> TRUE, error |-> "none", consentId |-> row.id,
          patientId |-> row.patientId, grantedTo |-> row.grantedTo,
          scopes |-> row.scopes]

\* verifyConsentToken lines 119-126: the catch block.
ConsentCatch(jwtOutcome) ==
    IF jwtOutcome = "TokenExpiredError" THEN Failure("Consent token expired")
    ELSE IF jwtOutcome = "JsonWebTokenError" THEN Failure("Invalid consent token")
    ELSE Failure("Consent verification failed")

\* prisma.consent.findUnique({ where: { id } })
FindConsent(id) ==
    IF id \in DOMAIN consents
    THEN [found |-> TRUE, row |-> consents[id]]
    ELSE [found |-> FALSE, row |-> NoRow]

\* A revoke that also rewrites the expiry of the row.
RevokedRowsExpiring(id) ==
    [consents EXCEPT ![id].revoked = TRUE, ![id].expiresAt = now]

\* A revoke that flips the flag instead of setting it.
RevokedRowsToggled(id) == [consents EXCEPT ![id].revoked = ~@]

\* Mutant of RevokedRows: the update does not reach the row.
RevokedRowsUnchanged(id) == consents

\* revokeConsent: prisma.consent.update({ where: { id }, data: { revoked: true } }).
RevokedRows(id) == [consents EXCEPT ![id].revoked = TRUE]

InitConsentVars ==
    /\ now = 0
    /\ consents = <<>>
    /\ issued = {}
    /\ vcalls = [c \in Callers |-> IdleCall]
    /\ revokeCompleted = {}
    /\ lastGrant = [status |-> 0, scopes |-> {}, ttl |-> 0, consentId |-> 0]

\* POST /api/consent/grant: validateRequest, then generateConsentToken.
GrantConsent(patientId, grantedTo, scopes, expiryMinutes) ==
    /\ Len(consents) < MaxConsents
    /\ IF GrantRequestValid(scopes, expiryMinutes)
       THEN LET id == Len(consents) + 1
                expiresAt == now + expiryMinutes
                token == JwtSign(ConsentPayload(id, patientId, grantedTo, scopes, expiresAt),
                                 CONSENT_TOKEN_SECRET, expiryMinutes,
                                 "pharmalync", "pharmalync-consent", now)
            IN  /\ consents' = Append(consents,
                                  [id |-> id, patientId |-> patientId,
                                   grantedTo |-> grantedTo, scopes |-> scopes,
                                   expiresAt |-> expiresAt, revoked |-> FALSE])
                /\ issued' = issued \cup {token}
                /\ lastGrant' = [status |-> 201, scopes |-> scopes,
                                 ttl |-> expiryMinutes, consentId |-> id]
       ELSE /\ lastGrant' = [status |-> 400, scopes |-> scopes,
                             ttl |-> expiryMinutes, consentId |-> 0]
            /\ UNCHANGED <<consents, issued>>
    /\ UNCHANGED <<now, vcalls, revokeCompleted>>
    /\ UNCHANGED <<auditState, extState>>

\* revokeConsent(consentId): one UPDATE; it throws when no such row exists.
RevokeConsent(id) ==
    /\ id \in DOMAIN consents
    /\ consents' = RevokedRows(id)
    /\ revokeCompleted' = revokeCompleted \cup {id}
    /\ UNCHANGED <<now, issued, vcalls, lastGrant>>
    /\ UNCHANGED <<auditState, extState>>

RevokeMissing(id) ==
    /\ id \notin DOMAIN consents
    /\ UNCHANGED consentVars
    /\ UNCHANGED <<auditState, extState>>

NoRevoke == [id |-> 0, status |-> 0, before |-> << >>]

NoRequest == [action |-> "none", status |-> 0, seqBefore |-> 0]

\* process.env[name] of a variable that is not set.
Undefined == <<-1>>

NoEnv == [ENCRYPTION_KEY |-> Undefined, JWT_ACCESS_SECRET |-> Undefined,
          JWT_REFRESH_SECRET |-> Undefined, CONSENT_TOKEN_SECRET |-> Undefined]

\* The process before index.ts has run.
NotStarted == [pc |-> "start", env |-> NoEnv, error |-> "none"]

\* No call of encryptPII or decryptPII yet.
NoPii == [encrypted |-> FALSE, data |-> << >>, userId |-> "undefined",
          encError |-> "none", buffer |-> << >>,
          decrypted |-> FALSE, presented |-> << >>, decUserId |-> "undefined",
          decError |-> "none", text |-> << >>]

\* No call of encryptFields or decryptFields yet.
NoBatch == [pc |-> "idle", fields |-> << >>, userId |-> "undefined",
            encrypted |-> << >>, result |-> << >>]

\* The concurrent POST /api/patients requests the model follows.
CreateRequests == {"c1", "c2"}

NoCreate == [pc |-> "idle", aadhaar |-> << >>, aadhaarHash |-> << >>,
             iv |-> << >>, encrypted |-> << >>, hash |-> << >>, status |-> 0]

NoView == [row |-> 0, error |-> "none", aadhaarToken |-> << >>]

NoPassword == [hashed |-> FALSE, password |-> << >>,
               stored |-> [saltHex |-> << >>, hashHex |-> << >>],
               verified |-> FALSE, attempt |-> << >>, result |-> FALSE]

\* No call of checkConsent yet.
NoCheck == [called |-> FALSE, patientId |-> "undefined", userId |-> "undefined",
            requiredScopes |-> {}, rows |-> << >>, at |-> 0, picked |-> 0,
            result |-> FALSE]

InitAppVars ==
    /\ lastCheck = NoCheck
    /\ boot = NotStarted
    /\ pii = NoPii
    /\ batch = NoBatch
    /\ idCalls = << >>
    /\ patients = << >>
    /\ creates = [q \in CreateRequests |-> NoCreate]
    /\ lastView = NoView
    /\ pwCall = NoPassword

InitRouteVars ==
    /\ lastRevoke = NoRevoke
    /\ lastRequest = NoRequest
    /\ InitAppVars
    /\ schemaUnique = TRUE

\* POST /api/consent/revoke: 200 after revokeConsent, 500 when it throws
\* (prisma's update rejects when no row has the id).
RevokeRoute(id) ==
    /\ IF id \in DOMAIN consents
         THEN /\ consents' = RevokedRows(id)
              /\ revokeCompleted' = revokeCompleted \cup {id}
              /\ lastRevoke' = [id |-> id, status |-> 200, before |-> consents]
         ELSE /\ lastRevoke' = [id |-> id, status |-> 500, before |-> consents]
              /\ UNCHANGED <<consents, revokeCompleted>>
    /\ UNCHANGED <<now, issued, vcalls, lastGrant>>
    /\ UNCHANGED <<auditState, dispenseState, authState, qrState, lastRequest,
                   appState>>

\* verifyConsentToken, up to the first await: jwt.verify, then the
\* findUnique query is issued.
VerifyStart(c, token, requiredScopes) ==
    /\ vcalls[c].pc = "idle"
    /\ LET outcome == JwtVerify(token, CONSENT_TOKEN_SECRET,
                                "pharmalync", "pharmalync-consent", now)
           call == [IdleCall EXCEPT !.token = token, !.required = requiredScopes,
                                    !.live = (now < token.claims.exp),
                                    !.afterRevoke =
                                        token.claims.payload.consentId \in revokeCompleted]
       IN  vcalls' = [vcalls EXCEPT ![c] =
                IF outcome = "ok"
                THEN [call EXCEPT !.pc = "loading"]
                ELSE [call EXCEPT !.pc = "done", !.checkedAt = now,
                                  !.result = ConsentCatch(outcome)]]
    /\ UNCHANGED <<now, consents, issued, revokeCompleted, lastGrant>>
    /\ UNCHANGED <<auditState, extState>>

\* The database answers the findUnique query.
VerifyLoad(c) ==
    /\ vcalls[c].pc = "loading"
    /\ LET r == FindConsent(vcalls[c].token.claims.payload.consentId)
       IN  vcalls' = [vcalls EXCEPT ![c].pc = "loaded",
                                    ![c].found = r.found, ![c].row = r.row]
    /\ UNCHANGED <<now, consents, issued, revokeCompleted, lastGrant>>
    /\ UNCHANGED <<auditState, extState>>

\* The continuation after the await: lines 90-118 on the loaded row.
VerifyFinish(c) ==
    /\ vcalls[c].pc = "loaded"
    /\ vcalls' = [vcalls EXCEPT
                    ![c].pc = "done", ![c].checkedAt = now,
                    ![c].result = ConsentChecks(vcalls[c].found, vcalls[c].row,
                                                vcalls[c].required, now)]
    /\ UNCHANGED <<now, consents, issued, revokeCompleted, lastGrant>>
    /\ UNCHANGED <<auditState, extState>>

\* The caller has consumed the result; the slot serves the next call.
VerifyReturn(c) ==
    /\ vcalls[c].pc = "done"
    /\ vcalls' = [vcalls EXCEPT ![c] = IdleCall]
    /\ UNCHANGED <<now, consents, issued, revokeCompleted, lastGrant>>
    /\ UNCHANGED <<auditState, extState>>

Tick ==
    /\ now < MaxTime
    /\ now' = now + 1
    /\ UNCHANGED <<consents, issued, vcalls, revokeCompleted, lastGrant>>
    /\ UNCHANGED <<auditState, extState>>


(***************************************************************************)
(* AuditService (backend/src/services/audit.service.ts), the audit part    *)
(* of BlockchainService and the PharmaLyncAudit contract.                  *)
(***************************************************************************)
CriticalAction == {"VIEW_AADHAAR", "CREATE_PATIENT", "UPDATE_PATIENT",
                   "MEDICINE_DISPENSE", "PRESCRIPTION_CREATE"}

isCriticalAction(action) == action \in CriticalAction

\* What the model logs: one critical and one ordinary action; a resource id
\* may be missing.
AuditActions == {"VIEW_AADHAAR", "LOGIN"}
AuditResourceIds == {"undefined", "patient-1"}
AuditUsers == {"u1"}
AuditIds == 1..MaxAudit

\* hashAuditData: SHA-256 of the JSON text of the five fields, a missing
\* resourceId written as ''.  The digest is determined by, and determines,
\* that text.
hashAuditData(userId, action, resourceType, resourceId, timestamp) ==
    [kind |-> "sha256", userId |-> userId, action |-> action,
     resourceType |-> resourceType,
     resourceId |-> IF resourceId = "undefined" THEN "" ELSE resourceId,
     timestamp |-> timestamp]

\* The empty string BlockchainService.verifyAudit returns for "no hash".
EmptyHash ==
    [kind |-> "empty", userId |-> "", action |-> "", resourceType |-> "",
     resourceId |-> "", timestamp |-> 0]

NoTx == [tx |-> "null", n |-> 0]
OffChain == [tx |-> "OFF_CHAIN", n |-> 0]
TxHash(auditId) == [tx |-> "0x", n |-> auditId]

NoSubmission == [pc |-> "none", txHash |-> NoTx]

\* BlockchainService.logAuditToBlockchain: "OFF_CHAIN" without a contract,
\* otherwise the hash of the transaction that was sent, or an exception.
\* answer is what the provider did: "sent" or "error".
logAuditToBlockchain(auditId, answer) ==
    IF ~ledgerConfigured THEN [threw |-> FALSE, txHash |-> OffChain]
    ELSE IF answer = "sent" THEN [threw |-> FALSE, txHash |-> TxHash(auditId)]
    ELSE [threw |-> TRUE, txHash |-> NoTx]

\* BlockchainService.verifyAudit: the stored dataHash, or '' when there is no
\* contract or the call fails (the ledger is unreachable, or the contract
\* reverts with "Audit record not found").
BlockchainVerifyAudit(auditId, reachable) ==
    IF ~ledgerConfigured THEN EmptyHash
    ELSE IF reachable /\ auditId \in DOMAIN chainAudit
         THEN chainAudit[auditId].dataHash
    ELSE EmptyHash

\* Mutant of RowsAfterLedgerFailure: the entry is rolled back.
RowsRolledBack(auditId) ==
    [i \in DOMAIN auditLogs \ {auditId} |-> auditLogs[i]]

\* logCriticalAudit's catch block (lines 125-128): the rows it leaves.
RowsAfterLedgerFailure(auditId) == auditLogs

\* logAudit line 92: the id is returned once the row is created.
ReturnedAfterCreate(id, action) == auditReturned \cup {id}

NoIntegrity ==
    [auditId |-> 0, called |-> FALSE, hadRef |-> FALSE, reachable |-> FALSE,
     ledgerAnswered |-> FALSE, valid |-> FALSE, localHash |-> EmptyHash, blockchainHash |-> EmptyHash,
     error |-> "none"]

\* A verifyAuditIntegrity that reports an entry without a reference as
\* tampered.
NotAnchoredAsMismatch(auditId, localHash) ==
    [NoIntegrity EXCEPT !.auditId = auditId, !.called = TRUE,
                        !.valid = FALSE, !.localHash = localHash,
                        !.error = "Hash mismatch - data may be tampered"]

\* The result for an entry without blockchainTxHash (line 216).
NotAnchored(auditId, localHash) ==
    [NoIntegrity EXCEPT !.auditId = auditId, !.called = TRUE,
                        !.valid = TRUE, !.localHash = localHash,
                        !.error = "Not logged to blockchain"]

\* verifyAuditIntegrity; reachable tells whether the ledger answers the
\* call made at line 221.
verifyAuditIntegrity(auditId, reachable) ==
    IF auditId \notin DOMAIN auditLogs
    THEN [NoIntegrity EXCEPT !.auditId = auditId, !.called = TRUE,
                             !.error = "Audit log not found"]
    ELSE LET row == auditLogs[auditId]
             localHash == hashAuditData(row.userId, row.action, row.resourceType,
                                        row.resourceId, row.timestamp)
             answered == ledgerConfigured /\ reachable /\ auditId \in DOMAIN chainAudit
         IN  IF row.blockchainTxHash = NoTx
             THEN NotAnchored(auditId, localHash)
             ELSE LET blockchainHash == BlockchainVerifyAudit(auditId, reachable)
                      valid == (localHash = blockchainHash)
                  IN  [auditId |-> auditId, called |-> TRUE, hadRef |-> TRUE,
                       reachable |-> reachable, ledgerAnswered |-> answered,
                       valid |-> valid, localHash |-> localHash,
                       blockchainHash |-> blockchainHash,
                       error |-> IF valid THEN "none"
                                 ELSE "Hash mismatch - data may be tampered"]

AuditStoreEmpty ==
    /\ auditLogs = <<>>
    /\ auditSeq = 0
    /\ auditReturned = {}
    /\ submission = <<>>
    /\ pendingTx = {}
    /\ chainAudit = <<>>
    /\ ledgerIssued = <<>>
    /\ errorLog = {}
    /\ integrity = NoIntegrity

InitAuditVars ==
    /\ ledgerConfigured = FALSE
    /\ AuditStoreEmpty

\* logAudit: create the row; for a critical action start logCriticalAudit
\* without awaiting it; return the id.  Each call reads a later new Date().
LogAuditRows(userId, action, resourceType, resourceId) ==
    /\ auditSeq < MaxAudit
    /\ LET id == auditSeq + 1
       IN  /\ auditSeq' = id
           /\ auditLogs' = (id :> [userId |-> userId, action |-> action,
                                   resourceType |-> resourceType,
                                   resourceId |-> resourceId, timestamp |-> now,
                                   blockchainTxHash |-> NoTx]) @@ auditLogs
           /\ submission' = (id :> [pc |-> IF isCriticalAction(action)
                                           THEN "calling" ELSE "none",
                                    txHash |-> NoTx]) @@ submission
           /\ auditReturned' = ReturnedAfterCreate(id, action)
    /\ now' = now + 1
    /\ UNCHANGED <<ledgerConfigured, pendingTx, chainAudit, ledgerIssued,
                   errorLog, integrity>>

\* A call of logAudit by a caller that touches nothing else.
LogAudit(userId, action, resourceType, resourceId) ==
    /\ LogAuditRows(userId, action, resourceType, resourceId)
    /\ UNCHANGED <<consentState, extState>>

\* logCriticalAudit line 113: logAuditToBlockchain answers, or throws; a
\* ledger that never answers leaves the submission at "calling".
LedgerAnswers(id, answer) ==
    /\ id \in DOMAIN submission
    /\ submission[id].pc = "calling"
    /\ LET r == logAuditToBlockchain(id, answer)
       IN  IF r.threw
           THEN /\ submission' = [submission EXCEPT ![id].pc = "failed"]
                /\ auditLogs' = RowsAfterLedgerFailure(id)
                /\ errorLog' = errorLog \cup {id}
                /\ UNCHANGED <<pendingTx, ledgerIssued>>
           ELSE /\ submission' = [submission EXCEPT ![id].pc = "answered",
                                                    ![id].txHash = r.txHash]
                /\ pendingTx' = IF ledgerConfigured THEN pendingTx \cup {id}
                                ELSE pendingTx
                /\ ledgerIssued' = IF ledgerConfigured
                                   THEN (id :> r.txHash) @@ ledgerIssued
                                   ELSE ledgerIssued
                /\ UNCHANGED <<auditLogs, errorLog>>
    /\ UNCHANGED <<now, ledgerConfigured, auditSeq, auditReturned, chainAudit,
                   integrity>>
    /\ UNCHANGED <<consentState, extState>>

\* A back-fill that also stamps the entry with the time of the update.
BackFilledRowsRestamped(id) ==
    [auditLogs EXCEPT ![id].blockchainTxHash = submission[id].txHash,
                      ![id].timestamp = now]

\* prisma.auditLog.update({ where: { id }, data: { blockchainTxHash } }).
BackFilledRows(id) ==
    [auditLogs EXCEPT ![id].blockchainTxHash = submission[id].txHash]

\* logCriticalAudit lines 121-124: the back-fill of the reference.
BackFill(id) ==
    /\ id \in DOMAIN submission
    /\ submission[id].pc = "answered"
    /\ id \in DOMAIN auditLogs
    /\ auditLogs' = BackFilledRows(id)
    /\ submission' = [submission EXCEPT ![id].pc = "backfilled"]
    /\ UNCHANGED <<now, ledgerConfigured, auditSeq, auditReturned, pendingTx,
                   chainAudit, ledgerIssued, errorLog, integrity>>
    /\ UNCHANGED <<consentState, extState>>

\* PharmaLyncAudit.logAudit executes in a block.
MineAuditTx(id) ==
    /\ id \in pendingTx
    /\ id \in DOMAIN auditLogs
    /\ pendingTx' = pendingTx \ {id}
    /\ chainAudit' =
          IF id \in DOMAIN chainAudit THEN chainAudit
          ELSE LET row == auditLogs[id]
               IN (id :> [action |-> row.action,
                          dataHash |-> hashAuditData(row.userId, row.action,
                                          row.resourceType, row.resourceId,
                                          row.timestamp),
                          timestamp |-> row.timestamp]) @@ chainAudit
    /\ UNCHANGED <<now, ledgerConfigured, auditLogs, auditSeq, auditReturned,
                   submission, ledgerIssued, errorLog, integrity>>
    /\ UNCHANGED <<consentState, extState>>

\* The transaction is dropped or reverts: nothing is recorded.
DropAuditTx(id) ==
    /\ id \in pendingTx
    /\ pendingTx' = pendingTx \ {id}
    /\ UNCHANGED <<now, ledgerConfigured, auditLogs, auditSeq, auditReturned,
                   submission, chainAudit, ledgerIssued, errorLog, integrity>>
    /\ UNCHANGED <<consentState, extState>>

\* GET /api/audit/:id/verify
VerifyIntegrity(id, reachable) ==
    /\ integrity' = verifyAuditIntegrity(id, reachable)
    /\ UNCHANGED <<now, ledgerConfigured, auditLogs, auditSeq, auditReturned,
                   submission, pendingTx, chainAudit, ledgerIssued, errorLog>>
    /\ UNCHANGED <<consentState, extState>>

(***************************************************************************)
(* Medicine dispensing: the PharmaLyncCore contract, BlockchainService     *)
(* and the route POST /api/medicines/:id/dispense.  The route reads the    *)
(* dispensed flag, then sends a transaction and waits for its receipt;     *)
(* the contract executes transactions one at a time.                       *)
(***************************************************************************)
MaxMedicines == 2
MaxDispense == 3

Requests == {"req-1", "req-2"}
ChainIds == 1..MaxMedicines
RowIds == 1..MaxMedicines

\* registerMedicine falls back to keccak256(batchNumber) when the receipt has
\* no MedicineRegistered event the ABI can decode: an id the contract never
\* assigned.
KeccakId == MaxMedicines + 1
BlockchainIds == ChainIds \cup {KeccakId}

IdleRequest == [pc |-> "idle", row |-> 0, blockchainId |-> 0, status |-> 0,
                sawDispensed |-> FALSE]

\* require(medicineId > 0 && medicineId <= medicineCounter, ...)
ValidMedicineId(medicineId) == medicineId > 0 /\ medicineId <= medicineCounter

\* A contract without the dispensed-flag requirement.
CoreDispenseAllowedNoFlag(medicineId) ==
    /\ pharmacyRole
    /\ ValidMedicineId(medicineId)

\* PharmaLyncCore.dispenseMedicine: onlyRole(PHARMACY_ROLE) and its requires.
CoreDispenseAllowed(medicineId) ==
    /\ pharmacyRole
    /\ ValidMedicineId(medicineId)
    /\ medicineId \notin chainDispensed

\* BlockchainService.isMedicineDispensed: "false" without a contract,
\* "throws" when the call fails or the contract reverts, else the flag.
isMedicineDispensed(medicineId, reachable) ==
    IF ~coreConfigured THEN "false"
    ELSE IF ~reachable \/ ~ValidMedicineId(medicineId) THEN "throws"
    ELSE IF medicineId \in chainDispensed THEN "true" ELSE "false"

InitDispenseVars ==
    /\ coreConfigured = FALSE
    /\ pharmacyRole = FALSE
    /\ medicineCounter = 0
    /\ chainDispensed = {}
    /\ medicineRows = << >>
    /\ dreqs = [r \in Requests |-> IdleRequest]
    /\ dispenseSeq = 0
    /\ successes = [m \in BlockchainIds |-> 0]
    /\ everDispensed = {}

Respond(r, code) == [dreqs EXCEPT ![r].pc = "done", ![r].status = code]

\* POST /api/medicines: register on the contract, then create the row.
RegisterMedicine(eventFound) ==
    /\ coreConfigured
    /\ medicineCounter < MaxMedicines
    /\ medicineCounter' = medicineCounter + 1
    /\ medicineRows' = Append(medicineRows,
                              IF eventFound THEN medicineCounter + 1 ELSE KeccakId)
    /\ UNCHANGED <<coreConfigured, pharmacyRole, chainDispensed, dreqs,
                   dispenseSeq, successes, everDispensed>>
    /\ UNCHANGED <<now, consentState, auditState, authState, qrState, routeState>>

\* The route up to the flag check: findUnique, 404, 400.
DispenseStart(r, id) ==
    /\ dreqs[r].pc = "idle"
    /\ dispenseSeq < MaxDispense
    /\ dispenseSeq' = dispenseSeq + 1
    /\ dreqs' = IF id \notin DOMAIN medicineRows
                  THEN [dreqs EXCEPT ![r] = [IdleRequest EXCEPT !.pc = "done",
                                                  !.row = id, !.status = 404]]
                ELSE IF medicineRows[id] = 0
                  THEN [dreqs EXCEPT ![r] = [IdleRequest EXCEPT !.pc = "done",
                                                  !.row = id, !.status = 400]]
                ELSE [dreqs EXCEPT ![r] =
                        [pc |-> "check", row |-> id,
                         blockchainId |-> medicineRows[id], status |-> 0,
                         sawDispensed |-> medicineRows[id] \in chainDispensed]]
    /\ UNCHANGED <<coreConfigured, pharmacyRole, medicineCounter, chainDispensed,
                   medicineRows, successes, everDispensed>>
    /\ UNCHANGED <<now, consentState, auditState, authState, qrState, routeState>>

\* await blockchainService.isMedicineDispensed(...) and the 409 answer.
DispenseCheck(r, reachable) ==
    /\ dreqs[r].pc = "check"
    /\ LET answer == isMedicineDispensed(dreqs[r].blockchainId, reachable)
       IN  dreqs' = IF answer = "throws" THEN Respond(r, 500)
                    ELSE IF answer = "true" THEN Respond(r, 409)
                    ELSE [dreqs EXCEPT ![r].pc = "send"]
    /\ UNCHANGED <<coreConfigured, pharmacyRole, medicineCounter, chainDispensed,
                   medicineRows, dispenseSeq, successes, everDispensed>>
    /\ UNCHANGED <<now, consentState, auditState, authState, qrState, routeState>>

\* BlockchainService.dispenseMedicine up to "await tx.wait()".
DispenseSend(r, accepted) ==
    /\ dreqs[r].pc = "send"
    /\ dreqs' = IF ~coreConfigured \/ ~accepted THEN Respond(r, 500)
                ELSE [dreqs EXCEPT ![r].pc = "pending"]
    /\ UNCHANGED <<coreConfigured, pharmacyRole, medicineCounter, chainDispensed,
                   medicineRows, dispenseSeq, successes, everDispensed>>
    /\ UNCHANGED <<now, consentState, auditState, authState, qrState, routeState>>

\* The contract executes the transaction; tx.wait() resolves or rejects and
\* the route answers 200 or 500.
MineDispenseTx(r) ==
    /\ dreqs[r].pc = "pending"
    /\ LET m == dreqs[r].blockchainId
       IN  IF CoreDispenseAllowed(m)
             THEN /\ chainDispensed' = chainDispensed \cup {m}
                  /\ everDispensed' = everDispensed \cup {m}
                  /\ successes' = [successes EXCEPT ![m] = @ + 1]
                  /\ dreqs' = Respond(r, 200)
             ELSE /\ dreqs' = Respond(r, 500)
                  /\ UNCHANGED <<chainDispensed, everDispensed, successes>>
    /\ UNCHANGED <<coreConfigured, pharmacyRole, medicineCounter, medicineRows,
                   dispenseSeq>>
    /\ UNCHANGED <<now, consentState, auditState, authState, qrState, routeState>>

\* The response has been sent; the connection can carry the next request.
DispenseRespond(r) ==
    /\ dreqs[r].pc = "done"
    /\ dreqs' = [dreqs EXCEPT ![r] = IdleRequest]
    /\ UNCHANGED <<coreConfigured, pharmacyRole, medicineCounter, chainDispensed,
                   medicineRows, dispenseSeq, successes, everDispensed>>
    /\ UNCHANGED <<now, consentState, auditState, authState, qrState, routeState>>


(***************************************************************************)
(* AuthService session tokens (generateAccessToken, generateRefreshToken,  *)
(* verifyAccessToken, verifyRefreshToken) and the authenticate middleware. *)
(* Time is in minutes.                                                     *)
(***************************************************************************)
MaxSessions == 2

JWT_ACCESS_SECRET == "JWT_ACCESS_SECRET"
JWT_REFRESH_SECRET == "JWT_REFRESH_SECRET"
JWT_ACCESS_EXPIRY == 15
JWT_REFRESH_EXPIRY == 10080

\* The instants at which the model looks at the clock.
AuthClock == {0, 1, JWT_ACCESS_EXPIRY, JWT_ACCESS_EXPIRY + 1,
              JWT_REFRESH_EXPIRY, JWT_REFRESH_EXPIRY + 1}

AuthUsers == {[userId |-> "u1", email |-> "u1@example.org", role |-> "DOCTOR"],
              [userId |-> "u2", email |-> "u2@example.org", role |-> "PHARMACY"]}

NoUser == [userId |-> NoClaim, email |-> NoClaim, role |-> NoClaim]

\* jwt.sign(payload, JWT_ACCESS_SECRET, { expiresIn }): the options name no
\* issuer and no audience, and the payload has no iss or aud member.
generateAccessToken(payload, t) ==
    JwtSign(payload, JWT_ACCESS_SECRET, JWT_ACCESS_EXPIRY, NoClaim, NoClaim, t)

\* jwt.sign({ userId }, JWT_REFRESH_SECRET, { expiresIn }).
generateRefreshToken(payload, t) ==
    JwtSign([NoUser EXCEPT !.userId = payload.userId], JWT_REFRESH_SECRET,
            JWT_REFRESH_EXPIRY, NoClaim, NoClaim, t)

AuthOutcome(message, decoded) == [message |-> message, decoded |-> decoded]

\* verifyAccessToken: the decoded identity, or the error it throws.
verifyAccessToken(token, t) ==
    LET outcome == JwtVerify(token, JWT_ACCESS_SECRET, "pharmalync",
                             "pharmalync-api", t)
    IN  IF outcome = "ok" THEN AuthOutcome("ok", token.claims.payload)
        ELSE IF outcome = "TokenExpiredError"
          THEN AuthOutcome("Token expired", NoUser)
        ELSE AuthOutcome("Invalid token", NoUser)

\* verifyRefreshToken: the decoded userId, or the error it throws.
verifyRefreshToken(token, t) ==
    LET outcome == JwtVerify(token, JWT_REFRESH_SECRET, "pharmalync",
                             "pharmalync-api", t)
    IN  IF outcome = "ok"
          THEN AuthOutcome("ok", [NoUser EXCEPT
                                    !.userId = token.claims.payload.userId])
        ELSE IF outcome = "TokenExpiredError"
          THEN AuthOutcome("Refresh token expired", NoUser)
        ELSE AuthOutcome("Invalid refresh token", NoUser)

\* A string that is not a token at all.
NotAJwt == [kind |-> "garbage", alg |-> "none",
            claims |-> [payload |-> NoUser, iat |-> 0, exp |-> 0,
                        iss |-> NoClaim, aud |-> NoClaim],
            sig |-> [key |-> "none",
                     over |-> [payload |-> NoUser, iat |-> 0, exp |-> 0,
                               iss |-> NoClaim, aud |-> NoClaim]]]

NoAuthCheck == [kind |-> "none", token |-> NotAJwt, at |-> 0,
                outcome |-> AuthOutcome("pending", NoUser)]

SessionTokens == {s.token : s \in sessionTokens} \cup {NotAJwt}

InitAuthVars ==
    /\ sessionTokens = {}
    /\ authCheck = NoAuthCheck

IssueAccess(user) ==
    /\ Cardinality(sessionTokens) < MaxSessions
    /\ sessionTokens' = sessionTokens \cup
          {[kind |-> "access", token |-> generateAccessToken(user, now),
            user |-> user, issuedAt |-> now]}
    /\ UNCHANGED <<now, authCheck>>
    /\ UNCHANGED <<consentState, auditState, dispenseState, qrState, routeState>>

IssueRefresh(user) ==
    /\ Cardinality(sessionTokens) < MaxSessions
    /\ sessionTokens' = sessionTokens \cup
          {[kind |-> "refresh", token |-> generateRefreshToken(user, now),
            user |-> [NoUser EXCEPT !.userId = user.userId], issuedAt |-> now]}
    /\ UNCHANGED <<now, authCheck>>
    /\ UNCHANGED <<consentState, auditState, dispenseState, qrState, routeState>>

\* authenticate: verifyAccessToken on the bearer token.
VerifyAccess(token) ==
    /\ token \in SessionTokens
    /\ authCheck' = [kind |-> "access", token |-> token, at |-> now,
                     outcome |-> verifyAccessToken(token, now)]
    /\ UNCHANGED <<now, sessionTokens>>
    /\ UNCHANGED <<consentState, auditState, dispenseState, qrState, routeState>>

VerifyRefresh(token) ==
    /\ token \in SessionTokens
    /\ authCheck' = [kind |-> "refresh", token |-> token, at |-> now,
                     outcome |-> verifyRefreshToken(token, now)]
    /\ UNCHANGED <<now, sessionTokens>>
    /\ UNCHANGED <<consentState, auditState, dispenseState, qrState, routeState>>

AuthTick(t) ==
    /\ t > now
    /\ now' = t
    /\ UNCHANGED <<sessionTokens, authCheck>>
    /\ UNCHANGED <<consentState, auditState, dispenseState, qrState, routeState>>


(***************************************************************************)
(* QrSecurityService: generateSecureToken and verifyToken.                 *)
(*                                                                         *)
(* Text is a sequence of character codes, a buffer a sequence of bytes     *)
(* (0..255).  A token is a sequence of base64url characters, each written  *)
(* as its index in the alphabet (0..63); NotBase64 stands for any          *)
(* character outside the alphabet.  The iv, the tag and the payload are    *)
(* shorter than in the service (IvBytes, TagBytes, two payload bytes) and  *)
(* the digest of the keyed hash is the keyed input itself, so that it is   *)
(* different for different inputs.                                         *)
(***************************************************************************)
IvBytes == 1
TagBytes == 1

NotBase64 == 64

RECURSIVE SumSeq(_)
SumSeq(s) == IF s = << >> THEN 0 ELSE Head(s) + SumSeq(Tail(s))

\* Buffer.toString('base64url'): three bytes to four characters, no padding.
Base64UrlEncode(bytes) ==
    LET n == Len(bytes)
        at(k) == IF k <= n THEN bytes[k] ELSE 0
    IN  [i \in 1..((8 * n + 5) \div 6) |->
           LET g == (i - 1) \div 4
               j == (i - 1) % 4
               x == at(3 * g + 1)
               y == at(3 * g + 2)
               z == at(3 * g + 3)
           IN  CASE j = 0 -> x \div 4
                 [] j = 1 -> (x % 4) * 16 + y \div 16
                 [] j = 2 -> (y % 16) * 4 + z \div 64
                 [] j = 3 -> z % 64]

\* Buffer.from(token, 'base64url'): characters outside the alphabet are
\* skipped, every full group of eight bits is a byte and the bits left over
\* at the end are dropped.
Base64UrlDecode(token) ==
    LET s == SelectSeq(token, LAMBDA c : c < NotBase64)
    IN  [k \in 1..((Len(s) * 6) \div 8) |->
           LET g == (k - 1) \div 3
               j == (k - 1) % 3
           IN  CASE j = 0 -> s[4 * g + 1] * 4 + s[4 * g + 2] \div 16
                 [] j = 1 -> (s[4 * g + 2] % 16) * 16 + s[4 * g + 3] \div 4
                 [] j = 2 -> (s[4 * g + 3] % 4) * 64 + s[4 * g + 4]]

\* One digit of Buffer.toString('hex'): 0-9 and a-f.
HexChar(nibble) == IF nibble < 10 THEN 48 + nibble ELSE 87 + nibble

\* Buffer.toString('hex').
HexEncode(bytes) ==
    [i \in 1..(2 * Len(bytes)) |->
        IF i % 2 = 1 THEN HexChar(bytes[(i + 1) \div 2] \div 16)
        ELSE HexChar(bytes[i \div 2] % 16)]

\* The value of a hex digit in either case, 16 for any other character.
HexValue(c) ==
    IF c >= 48 /\ c <= 57 THEN c - 48
    ELSE IF c >= 97 /\ c <= 102 THEN c - 87
    ELSE IF c >= 65 /\ c <= 70 THEN c - 55
    ELSE 16

\* Buffer.from(text, 'hex'): pairs of digits up to the first pair that is
\* not two hex digits; an odd last character is ignored.
HexDecode(text) ==
    LET pairs == Len(text) \div 2
        good(k) == HexValue(text[2 * k - 1]) < 16 /\ HexValue(text[2 * k]) < 16
        bad == {k \in 1..pairs : ~good(k)}
        n == IF bad = {} THEN pairs
             ELSE (CHOOSE k \in bad : \A o \in bad : k <= o) - 1
    IN  [k \in 1..n |-> HexValue(text[2 * k - 1]) * 16 + HexValue(text[2 * k])]

\* The member names of the package, as text.
KeyIv == <<105, 118>>
KeyTag == <<116, 97, 103>>
KeyEncrypted == <<101, 110, 99, 114, 121, 112, 116, 101, 100>>
KeySignature == <<115, 105, 103, 110, 97, 116, 117, 114, 101>>
PackageKeys == <<KeyIv, KeyTag, KeyEncrypted, KeySignature>>

Quoted(text) == <<34>> \o text \o <<34>>

\* JSON.stringify({ iv, tag, encrypted, signature }) of four strings of hex
\* digits.
StringifyPackage(iv, tag, encrypted, signature) ==
    <<123>> \o Quoted(KeyIv) \o <<58>> \o Quoted(iv)
      \o <<44>> \o Quoted(KeyTag) \o <<58>> \o Quoted(tag)
      \o <<44>> \o Quoted(KeyEncrypted) \o <<58>> \o Quoted(encrypted)
      \o <<44>> \o Quoted(KeySignature) \o <<58>> \o Quoted(signature)
      \o <<125>>

NoPackage == [ok |-> FALSE, iv |-> << >>, tag |-> << >>, encrypted |-> << >>,
              signature |-> << >>]

\* JSON.parse(jsonStr) followed by the destructuring of iv, tag, encrypted
\* and signature, for a text that is one character away from a package:
\* an object of four string members with these names.  A text that does not
\* parse, or that lacks a member, makes verifyToken throw before the
\* signature is looked at.
ParsePackage(text) ==
    LET n == Len(text)
        q == SelectSeq([i \in 1..n |-> i], LAMBDA i : text[i] = 34)
        between(a, b) == SubSeq(text, a + 1, b - 1)
        key(k) == between(q[4 * k - 3], q[4 * k - 2])
        value(k) == between(q[4 * k - 1], q[4 * k])
        plain(s) == \A i \in 1..Len(s) : s[i] >= 32 /\ s[i] # 92
        wellFormed ==
            /\ Len(q) = 16
            /\ q[1] = 2 /\ text[1] = 123
            /\ q[16] = n - 1 /\ text[n] = 125
            /\ \A k \in 1..4 :
                 /\ key(k) = PackageKeys[k]
                 /\ between(q[4 * k - 2], q[4 * k - 1]) = <<58>>
                 /\ plain(value(k))
            /\ \A k \in 1..3 : between(q[4 * k], q[4 * k + 1]) = <<44>>
    IN  IF wellFormed
          THEN [ok |-> TRUE, iv |-> value(1), tag |-> value(2),
                encrypted |-> value(3), signature |-> value(4)]
          ELSE NoPackage

ResourceTypes == {"MEDICINE", "PRESCRIPTION"}
QrMedicines == {1, 2}
QrNonces == {7}
IvByteChoices == {171, 28}
QrIvs == [1..IvBytes -> IvByteChoices]

\* A derivation that leaves the resource type out of the HMAC input.
DeriveKeySharedAcrossTypes(purpose, resourceType) ==
    IF purpose = "QR_TOKEN" THEN 58 ELSE 201

\* createHmac('sha256', masterKey).update(`QR_TOKEN_${r}` / `QR_SIGN_${r}`):
\* one secret byte for each purpose and resource type.
DeriveKey(purpose, resourceType) ==
    CASE purpose = "QR_TOKEN" /\ resourceType = "MEDICINE" -> 58
      [] purpose = "QR_TOKEN" /\ resourceType = "PRESCRIPTION" -> 77
      [] purpose = "QR_SIGN" /\ resourceType = "MEDICINE" -> 201
      [] purpose = "QR_SIGN" /\ resourceType = "PRESCRIPTION" -> 94

\* The values a member of the payload can have: a number, a string, a Date
\* (prescription.routes.ts passes issuedAt: prescription.createdAt); Absent
\* is a member the object does not have.  StringValue(k) is the ISO string
\* of DateValue(k).
NumberValue(k) == [type |-> "number", v |-> k]
StringValue(k) == [type |-> "string", v |-> k]
DateValue(k) == [type |-> "date", v |-> k]
Absent == [type |-> "absent", v |-> 0]

NoObject == [medicineId |-> Absent, nonce |-> Absent, timestamp |-> Absent]

\* { ...data, nonce: randomBytes(16).toString('hex'), timestamp: Date.now() }:
\* the members of data, then nonce and timestamp, which replace members of
\* the same name.
SpreadPayload(data, nonce, t) ==
    [medicineId |-> data.medicineId, nonce |-> StringValue(nonce),
     timestamp |-> NumberValue(t)]

\* JSON.stringify of one value, in one character: a digit for a number, a
\* letter for a string; a Date is written as its ISO string (Date.toJSON).
StringifyValue(x) == IF x.type = "number" THEN 48 + x.v ELSE 65 + x.v

\* JSON.parse of one value.
ParseValue(c) == IF c >= 48 /\ c <= 57 THEN NumberValue(c - 48)
                 ELSE StringValue(c - 65)

\* JSON.stringify(object): one character per member.
StringifyPayload(object) ==
    <<StringifyValue(object.medicineId), StringifyValue(object.nonce),
      StringifyValue(object.timestamp)>>

\* JSON.parse(decrypted): the object, or a SyntaxError.
ParsePayload(text) ==
    IF Len(text) = 3 /\ \A i \in 1..3 :
                           \/ text[i] >= 48 /\ text[i] <= 57
                           \/ text[i] >= 65 /\ text[i] <= 74
      THEN [ok |-> TRUE,
            object |-> [medicineId |-> ParseValue(text[1]),
                        nonce |-> ParseValue(text[2]),
                        timestamp |-> ParseValue(text[3])]]
      ELSE [ok |-> FALSE, object |-> NoObject]

\* aes-256-gcm: a keystream that depends on the key, the iv and the position,
\* and a tag that depends on the key, the iv and the ciphertext.
Keystream(key, iv, i) == (key + SumSeq(iv) + i) % 256

GcmTag(key, iv, ciphertext) ==
    [j \in 1..TagBytes |-> (key + SumSeq(iv) + 3 * SumSeq(ciphertext) + j) % 256]

\* A cipher whose encryption is not undone by its decryption.
GcmEncryptDoubled(key, iv, plaintext) ==
    [i \in 1..Len(plaintext) |->
        (plaintext[i] + 2 * Keystream(key, iv, i)) % 256]

GcmEncrypt(key, iv, plaintext) ==
    [i \in 1..Len(plaintext) |-> (plaintext[i] + Keystream(key, iv, i)) % 256]

\* createDecipheriv, setAuthTag, update and final: the plaintext, or a throw
\* for an empty iv, a tag of the wrong length or a tag that does not
\* authenticate the ciphertext.
GcmDecrypt(key, iv, tag, ciphertext) ==
    IF Len(iv) = 0 \/ Len(tag) # TagBytes \/ tag # GcmTag(key, iv, ciphertext)
      THEN [ok |-> FALSE, plaintext |-> << >>]
      ELSE [ok |-> TRUE,
            plaintext |-> [i \in 1..Len(ciphertext) |->
                             (ciphertext[i] + 256 - Keystream(key, iv, i)) % 256]]

\* createHmac('sha512', signKey).update(iv).update(tag).update(encrypted)
\* .digest(): iv and tag are buffers, encrypted is the text itself.
HmacSha512(signKey, iv, tag, encrypted) == <<signKey>> \o iv \o tag \o encrypted

\* generateSecureToken(data, resourceType) with the random iv and nonce.
generateSecureToken(object, resourceType, iv) ==
    LET tokenKey == DeriveKey("QR_TOKEN", resourceType)
        signKey == DeriveKey("QR_SIGN", resourceType)
        ciphertext == GcmEncrypt(tokenKey, iv, StringifyPayload(object))
        encrypted == HexEncode(ciphertext)
        tag == GcmTag(tokenKey, iv, ciphertext)
        signature == HexEncode(HmacSha512(signKey, iv, tag, encrypted))
    IN  Base64UrlEncode(StringifyPackage(HexEncode(iv), HexEncode(tag),
                                         encrypted, signature))

\* crypto.timingSafeEqual(a, b): a RangeError for buffers of different
\* lengths, else whether they are equal.
timingSafeEqual(a, b) ==
    IF Len(a) # Len(b) THEN "throws" ELSE IF a = b THEN "true" ELSE "false"

\* The token with the character at position pos replaced: one bit of the
\* character flipped, or a character outside the alphabet.  A mask of 0
\* leaves the token as it is.
MutationMasks == {0, 1, 2, 4, 8, 16, 32, NotBase64}

FlipBit(c, mask) ==
    IF (c \div mask) % 2 = 1 THEN c - mask ELSE c + mask

Mutated(token, pos, mask) ==
    IF mask = 0 THEN token
    ELSE IF mask = NotBase64 THEN [token EXCEPT ![pos] = NotBase64]
    ELSE [token EXCEPT ![pos] = FlipBit(token[pos], mask)]

NoData == [medicineId |-> Absent, nonce |-> Absent]

NoQr == [token |-> << >>, data |-> NoData, object |-> NoObject,
         resourceType |-> "none"]

IdleQrCall == [pc |-> "idle", token |-> << >>, resourceType |-> "none",
               iv |-> << >>, tag |-> << >>, encrypted |-> << >>,
               signature |-> << >>, signatureMatched |-> FALSE,
               decryptStarted |-> FALSE, ok |-> FALSE, data |-> NoObject,
               cause |-> "none", error |-> "none"]

\* The error the catch block throws for a failure of the given cause.
CaughtError(cause) ==
    "INVALID_QR: Unable to verify authenticity of the scanned code"

\* The catch block: every failure becomes the same INVALID_QR error.
InvalidQr(call, cause) ==
    [call EXCEPT !.pc = "done", !.ok = FALSE, !.data = NoObject,
                 !.cause = cause, !.error = CaughtError(cause)]

\* A verifyToken that decrypts without looking at the signature.
AfterUnpackDecrypt == "decrypt"

\* The step of verifyToken that follows the unpacking.
AfterUnpack == "signature"

InitQrVars ==
    /\ qrCreated = NoQr
    /\ qrCall = IdleQrCall

CreateQr(data, nonce, resourceType, iv) ==
    /\ qrCall.pc = "idle"
    /\ LET object == SpreadPayload(data, nonce, now)
       IN  qrCreated' = [token |-> generateSecureToken(object, resourceType, iv),
                         data |-> data, object |-> object,
                         resourceType |-> resourceType]
    /\ UNCHANGED <<now, qrCall>>
    /\ UNCHANGED <<consentState, auditState, dispenseState, authState, routeState>>

\* verifyToken, step 1: decode, parse, and read iv and tag as hex.
QrVerifyUnpack(pos, mask, resourceType) ==
    /\ qrCall.pc = "idle"
    /\ qrCreated # NoQr
    /\ pos \in 1..Len(qrCreated.token)
    /\ LET token == Mutated(qrCreated.token, pos, mask)
           package == ParsePackage(Base64UrlDecode(token))
           call == [IdleQrCall EXCEPT !.token = token,
                                      !.resourceType = resourceType]
       IN  qrCall' = IF ~package.ok THEN InvalidQr(call, "malformed")
                     ELSE [call EXCEPT !.pc = AfterUnpack,
                                       !.iv = HexDecode(package.iv),
                                       !.tag = HexDecode(package.tag),
                                       !.encrypted = package.encrypted,
                                       !.signature = package.signature]
    /\ UNCHANGED <<now, qrCreated>>
    /\ UNCHANGED <<consentState, auditState, dispenseState, authState, routeState>>

\* verifyToken, step 2: recompute the signature and compare.
QrVerifySignature ==
    /\ qrCall.pc = "signature"
    /\ LET signKey == DeriveKey("QR_SIGN", qrCall.resourceType)
           expectedSignature ==
               HexEncode(HmacSha512(signKey, qrCall.iv, qrCall.tag,
                                    qrCall.encrypted))
           equal == timingSafeEqual(HexDecode(qrCall.signature),
                                    HexDecode(expectedSignature))
       IN  qrCall' = IF equal = "true"
                       THEN [qrCall EXCEPT !.pc = "decrypt",
                                           !.signatureMatched = TRUE]
                       ELSE InvalidQr(qrCall, "signature")
    /\ UNCHANGED <<now, qrCreated>>
    /\ UNCHANGED <<consentState, auditState, dispenseState, authState, routeState>>

\* verifyToken, step 3: decrypt, check the tag, parse the payload.
QrVerifyDecrypt ==
    /\ qrCall.pc = "decrypt"
    /\ LET tokenKey == DeriveKey("QR_TOKEN", qrCall.resourceType)
           started == [qrCall EXCEPT !.decryptStarted = TRUE]
           decrypted == GcmDecrypt(tokenKey, qrCall.iv, qrCall.tag,
                                   HexDecode(qrCall.encrypted))
           data == ParsePayload(decrypted.plaintext)
       IN  qrCall' = IF decrypted.ok /\ data.ok
                       THEN [started EXCEPT !.pc = "done", !.ok = TRUE,
                                            !.data = data.object]
                       ELSE InvalidQr(started, IF decrypted.ok THEN "payload"
                                               ELSE "tag")
    /\ UNCHANGED <<now, qrCreated>>
    /\ UNCHANGED <<consentState, auditState, dispenseState, authState, routeState>>

\* verifyToken has returned or thrown; the next scan can begin.
QrVerifyReturn ==
    /\ qrCall.pc = "done"
    /\ qrCall' = IdleQrCall
    /\ UNCHANGED <<now, qrCreated>>
    /\ UNCHANGED <<consentState, auditState, dispenseState, authState, routeState>>

(***************************************************************************)
(* The audited routes: the auditLog middleware in front of                 *)
(* GET /api/patients/:id/aadhaar and POST /api/prescriptions.              *)
(***************************************************************************)
Roles == {"ADMIN", "NURSE", "DOCTOR"}

\* The auditLog middleware: res.json is wrapped, and the wrapper calls
\* logAudit only when the status is 2xx.  reached tells whether the request
\* got as far as the middleware.
AuditLogWrites(reached, status) == reached /\ status >= 200 /\ status < 300

\* The rows prisma.consent.findFirst can return in checkConsent.
ActiveConsents(patientId, userId) ==
    {id \in DOMAIN consents :
        /\ consents[id].patientId = patientId
        /\ consents[id].grantedTo = userId
        /\ ~consents[id].revoked
        /\ consents[id].expiresAt > now}

\* checkConsent on the row findFirst returned (0: none).
checkConsent(picked, requiredScopes) ==
    picked # 0 /\ requiredScopes \subseteq consents[picked].scopes

\* consentService.checkConsent(patientId, userId, requiredScopes), as
\* requirePatientConsent calls it: findFirst returns one of the active rows
\* of the pair (no orderBy), and the scopes of that row alone are tested.
CheckDirect(patientId, userId, requiredScopes, picked) ==
    /\ IF ActiveConsents(patientId, userId) = {} THEN picked = 0
         ELSE picked \in ActiveConsents(patientId, userId)
    /\ lastCheck' = [called |-> TRUE, patientId |-> patientId, userId |-> userId,
                     requiredScopes |-> requiredScopes, rows |-> consents,
                     at |-> now, picked |-> picked,
                     result |-> checkConsent(picked, requiredScopes)]
    /\ UNCHANGED <<coreState, boot, pii, batch, idCalls, patientState, pwCall>>

\* The response and the audit write of one request.
AuditedResponse(userId, action, resourceType, resourceId, reached, status) ==
    /\ lastRequest' = [action |-> action, status |-> status,
                       seqBefore |-> auditSeq]
    /\ IF AuditLogWrites(reached, status)
         THEN LogAuditRows(userId, action, resourceType, resourceId)
         ELSE UNCHANGED <<now, auditState>>
    /\ UNCHANGED <<consentState, dispenseState, authState, qrState, lastRevoke,
                   appState>>

\* GET /api/patients/:id/aadhaar: requirePatientConsent(VIEW_AADHAAR), then
\* auditLog('VIEW_AADHAAR', 'patient'), then the handler.
ViewAadhaar(userId, patientId, picked, patientFound, decrypted) ==
    /\ IF ActiveConsents(patientId, userId) = {} THEN picked = 0
         ELSE picked \in ActiveConsents(patientId, userId)
    /\ LET hasConsent == checkConsent(picked, {"VIEW_AADHAAR"})
           status == IF ~hasConsent THEN 403
                     ELSE IF ~patientFound THEN 404
                     ELSE IF ~decrypted THEN 500
                     ELSE 200
       IN  AuditedResponse(userId, "VIEW_AADHAAR", "patient", patientId,
                           hasConsent, status)

\* POST /api/prescriptions: requireRole(ADMIN, NURSE), validateRequest, then
\* auditLog('CREATE_PRESCRIPTION', 'prescription'), then the handler.
CreatePrescription(userId, role, bodyValid, created) ==
    /\ role \in Roles
    /\ LET allowed == role \in {"ADMIN", "NURSE"}
           status == IF ~allowed THEN 403
                     ELSE IF ~bodyValid THEN 400
                     ELSE IF ~created THEN 500
                     ELSE 201
       IN  AuditedResponse(userId, "CREATE_PRESCRIPTION", "prescription",
                           "undefined", allowed /\ bodyValid, status)


(***************************************************************************)
(* The start of the server: index.ts loads the environment, imports the    *)
(* route modules (patient.routes.ts constructs the AadhaarService and      *)
(* with it the KeyManagementService), and startServer validates the        *)
(* environment, connects the database and listens.                         *)
(***************************************************************************)
KeyHexLength == 64

IsHexDigit(c) == c \in (48..57) \cup (65..70) \cup (97..102)

\* !process.env[v]: the variable is not set, or is the empty string.
EnvMissing(value) == value = Undefined \/ value = << >>

\* A key test that looks at the characters only.
KeyFormatAnyLength(keyHex) == \A i \in 1..Len(keyHex) : IsHexDigit(keyHex[i])

\* /^[0-9a-fA-F]{64}$/.test(keyHex)
KeyFormatOk(keyHex) ==
    Len(keyHex) = KeyHexLength /\ \A i \in 1..Len(keyHex) : IsHexDigit(keyHex[i])

\* new KeyManagementService(): the error it throws, or "none".
KmsConstructor(env) ==
    IF EnvMissing(env.ENCRYPTION_KEY) THEN "ENCRYPTION_KEY is not set"
    ELSE IF ~KeyFormatOk(env.ENCRYPTION_KEY) THEN "ENCRYPTION_KEY format"
    ELSE "none"

\* KeyManagementService.validateConfig(): the required variables missing.
validateConfig(env) ==
    {v \in {"ENCRYPTION_KEY", "JWT_ACCESS_SECRET", "JWT_REFRESH_SECRET",
            "CONSENT_TOKEN_SECRET"} : EnvMissing(env[v])}

\* The values of ENCRYPTION_KEY the model tries: 64 hex digits in either
\* case, one digit short, one digit long (as with a trailing newline), a
\* character that is no hex digit, the empty string, not set.
HexText(n, c) == [i \in 1..n |-> c]
KeyChoices ==
    {HexText(KeyHexLength, 97),
     HexText(KeyHexLength - 1, 48) \o <<70>>,
     HexText(KeyHexLength - 1, 97),
     HexText(KeyHexLength, 97) \o <<10>>,
     HexText(KeyHexLength - 1, 97) \o <<103>>,
     << >>, Undefined}
SecretChoices == {Undefined, << >>, <<115>>}

EnvChoices ==
    [ENCRYPTION_KEY : KeyChoices, JWT_ACCESS_SECRET : SecretChoices,
     JWT_REFRESH_SECRET : SecretChoices, CONSENT_TOKEN_SECRET : SecretChoices]

\* dotenv.config() (index.ts line 7): process.env is what it is from here on.
LoadEnvironment(env) ==
    /\ boot.pc = "start"
    /\ boot' = [boot EXCEPT !.pc = "loaded", !.env = env]
    /\ UNCHANGED <<lastCheck, coreState, pii, batch, idCalls, patientState, pwCall>>

\* The imports of the route modules (index.ts lines 19-24): the module
\* patient.routes.ts calls getAadhaarService(), which constructs the
\* KeyManagementService; an exception there is uncaught and ends the process.
ImportRoutes ==
    /\ boot.pc = "loaded"
    /\ boot' = IF KmsConstructor(boot.env) = "none"
                THEN [boot EXCEPT !.pc = "imported"]
                ELSE [boot EXCEPT !.pc = "fatal", !.error = "key"]
    /\ UNCHANGED <<lastCheck, coreState, pii, batch, idCalls, patientState, pwCall>>

\* startServer, validateEnvironment(): process.exit(1) when validateConfig
\* throws.
ValidateEnvironment ==
    /\ boot.pc = "imported"
    /\ boot' = IF validateConfig(boot.env) = {}
                THEN [boot EXCEPT !.pc = "validated"]
                ELSE [boot EXCEPT !.pc = "fatal", !.error = "config"]
    /\ UNCHANGED <<lastCheck, coreState, pii, batch, idCalls, patientState, pwCall>>

\* connectDatabase(): process.exit(1) when prisma.$connect() rejects.
ConnectDatabase(connected) ==
    /\ boot.pc = "validated"
    /\ boot' = IF connected THEN [boot EXCEPT !.pc = "connected"]
                ELSE [boot EXCEPT !.pc = "fatal", !.error = "database"]
    /\ UNCHANGED <<lastCheck, coreState, pii, batch, idCalls, patientState, pwCall>>

\* initializeMiddleware(), initializeRoutes(), app.listen(PORT).
Listen ==
    /\ boot.pc = "connected"
    /\ boot' = [boot EXCEPT !.pc = "listening"]
    /\ UNCHANGED <<lastCheck, coreState, pii, batch, idCalls, patientState, pwCall>>


(***************************************************************************)
(* EncryptionService: AES-256-GCM over PII fields, stored as               *)
(* IV | AuthTag | Ciphertext, under the master key or a key derived for a  *)
(* user.  The cipher is the one of the QR codec; the IV and the tag have   *)
(* IvBytes and TagBytes bytes.                                             *)
(***************************************************************************)
\* KeyManagementService.getMasterKey(): the key, as one secret byte.
getMasterKey == 19

\* KeyManagementService.deriveUserKey(userId): HKDF of the master key with
\* the user id as salt.
deriveUserKey(userId) ==
    CASE userId = "u1" -> 140
      [] userId = "u2" -> 63

\* userId ? deriveUserKey(userId) : getMasterKey() - an empty user id is
\* falsy.
PiiUserIds == {"undefined", "", "u1", "u2"}
PiiKey(userId) ==
    IF userId \in {"undefined", ""} THEN getMasterKey ELSE deriveUserKey(userId)

\* Object.entries accepts a value that is the empty string; encryptPII does
\* not.
PiiTexts == {<< >>, <<65>>, <<66, 67>>}

\* encryptPII(data, userId) with the random iv.
encryptPII(data, userId, iv) ==
    LET key == PiiKey(userId)
        ciphertext == GcmEncrypt(key, iv, data)
    IN  IF data = << >>
        THEN [error |-> "Data to encrypt cannot be empty", buffer |-> << >>]
        ELSE [error |-> "none",
              buffer |-> iv \o GcmTag(key, iv, ciphertext) \o ciphertext]

\* A decryptPII that does not look at the tag.
decryptPIIUnchecked(encryptedBuffer, userId) ==
    LET key == PiiKey(userId)
        iv == SubSeq(encryptedBuffer, 1, IvBytes)
        ciphertext == SubSeq(encryptedBuffer, IvBytes + TagBytes + 1,
                             Len(encryptedBuffer))
    IN  IF Len(encryptedBuffer) < IvBytes + TagBytes
        THEN [error |-> "Invalid encrypted buffer", text |-> << >>]
        ELSE [error |-> "none",
              text |-> GcmDecrypt(key, iv, GcmTag(key, iv, ciphertext),
                                  ciphertext).plaintext]

\* decryptPII(encryptedBuffer, userId).
decryptPII(encryptedBuffer, userId) ==
    LET key == PiiKey(userId)
        iv == SubSeq(encryptedBuffer, 1, IvBytes)
        authTag == SubSeq(encryptedBuffer, IvBytes + 1, IvBytes + TagBytes)
        ciphertext == SubSeq(encryptedBuffer, IvBytes + TagBytes + 1,
                             Len(encryptedBuffer))
        d == GcmDecrypt(key, iv, authTag, ciphertext)
    IN  IF Len(encryptedBuffer) < IvBytes + TagBytes
        THEN [error |-> "Invalid encrypted buffer", text |-> << >>]
        ELSE IF d.ok THEN [error |-> "none", text |-> d.plaintext]
        ELSE [error |->
                "Decryption failed. Data may be corrupted or tampered with.",
              text |-> << >>]

\* The stored field as it is presented to decryptPII: one bit of one byte
\* flipped (mask 0: none), then cut to its first keep bytes.
ByteMasks == {0, 1, 2, 4, 8, 16, 32, 64, 128}
Presented(buffer, pos, mask, keep) ==
    SubSeq(IF mask = 0 THEN buffer
           ELSE [buffer EXCEPT ![pos] = FlipBit(buffer[pos], mask)], 1, keep)

EncryptField(data, userId, iv) ==
    /\ ~pii.encrypted
    /\ data \in PiiTexts
    /\ LET r == encryptPII(data, userId, iv)
       IN  pii' = [NoPii EXCEPT !.encrypted = TRUE, !.data = data,
                                !.userId = userId, !.encError = r.error,
                                !.buffer = r.buffer]
    /\ UNCHANGED <<lastCheck, coreState, boot, batch, idCalls, patientState, pwCall>>

DecryptField(pos, mask, keep, userId) ==
    /\ pii.encrypted /\ pii.encError = "none"
    /\ ~pii.decrypted
    /\ pos \in 1..Len(pii.buffer)
    /\ keep = Len(pii.buffer) \/ keep < IvBytes + TagBytes
    /\ LET presented == Presented(pii.buffer, pos, mask, keep)
           r == decryptPII(presented, userId)
       IN  pii' = [pii EXCEPT !.decrypted = TRUE, !.presented = presented,
                              !.decUserId = userId, !.decError = r.error,
                              !.text = r.text]
    /\ UNCHANGED <<lastCheck, coreState, boot, batch, idCalls, patientState, pwCall>>

\* The names and the maps given to encryptFields.  A map parsed from JSON
\* can have a member named __proto__.
FieldNames == {"name", "phone", "__proto__"}
FieldMaps == UNION {[names -> PiiTexts] : names \in SUBSET FieldNames}

\* The names Object.entries lists after the assignments object[k] = ...
\* for k in names: an assignment to __proto__ sets the prototype and adds
\* no member.
AssignedNames(names) == names \ {"__proto__"}

\* An encryptFields that stores every value under every name.
encryptFieldsAnyValue(fields, userId, ivs) ==
    LET names == AssignedNames({k \in DOMAIN fields : fields[k] # << >>})
    IN  [k \in names |->
           encryptPII(fields[CHOOSE n \in names : TRUE], userId, ivs[k]).buffer]

\* encryptFields(fields, userId): the values that are not falsy, encrypted
\* one by one; ivs are the random ivs.
encryptFields(fields, userId, ivs) ==
    [k \in AssignedNames({k \in DOMAIN fields : fields[k] # << >>}) |->
        encryptPII(fields[k], userId, ivs[k]).buffer]

\* decryptFields(fields, userId): throws when a decryptPII throws.
decryptFields(fields, userId) ==
    IF \E k \in DOMAIN fields : decryptPII(fields[k], userId).error # "none"
    THEN [threw |-> TRUE, fields |-> << >>]
    ELSE [threw |-> FALSE,
          fields |-> [k \in AssignedNames(DOMAIN fields) |->
                        decryptPII(fields[k], userId).text]]

EncryptFields(fields, userId, ivs) ==
    /\ batch.pc = "idle"
    /\ fields \in FieldMaps
    /\ batch' = [pc |-> "encrypted", fields |-> fields, userId |-> userId,
                 encrypted |-> encryptFields(fields, userId, ivs),
                 result |-> << >>]
    /\ UNCHANGED <<lastCheck, coreState, boot, pii, idCalls, patientState, pwCall>>

DecryptFields ==
    /\ batch.pc = "encrypted"
    /\ LET r == decryptFields(batch.encrypted, batch.userId)
       IN  batch' = [batch EXCEPT !.pc = IF r.threw THEN "threw" ELSE "decrypted",
                                  !.result = r.fields]
    /\ UNCHANGED <<lastCheck, coreState, boot, pii, idCalls, patientState, pwCall>>


(***************************************************************************)
(* AadhaarService: the identity number is tokenized (HMAC-SHA256 under the *)
(* master key, first 32 hex characters), the token is encrypted            *)
(* (AES-256-GCM, IV | AuthTag | Ciphertext) and hashed (SHA-256).          *)
(***************************************************************************)
AadhaarDigits == 12
TokenHexLength == 32

\* A test that accepts any string of digits.
DigitsOnly(aadhaar) ==
    \A i \in 1..Len(aadhaar) : aadhaar[i] >= 48 /\ aadhaar[i] <= 57

\* /^\d{12}$/.test(aadhaar)
validateAadhaarFormat(aadhaar) ==
    /\ Len(aadhaar) = AadhaarDigits
    /\ \A i \in 1..Len(aadhaar) : aadhaar[i] >= 48 /\ aadhaar[i] <= 57

\* createHmac('sha256', key).update(text).digest(): 32 bytes that the key
\* and the text determine (here through the sum of the characters, so that
\* different texts can have the same digest).
HmacSha256(key, text) ==
    LET sum == SumSeq(text)
    IN  [i \in 1..32 |-> (key + i * sum) % 256]

\* createHash('sha256').update(text).digest('hex')
Sha256Hex(text) ==
    LET sum == SumSeq(text)
    IN  HexEncode([i \in 1..32 |-> (7 + i * sum) % 256])

InvalidAadhaar == "Invalid Aadhaar format. Must be exactly 12 digits."

\* tokenizeAadhaar(aadhaar): the token, or the format error.
tokenizeAadhaar(aadhaar) ==
    IF ~validateAadhaarFormat(aadhaar)
    THEN [error |-> InvalidAadhaar, token |-> << >>]
    ELSE [error |-> "none",
          token |-> SubSeq(HexEncode(HmacSha256(getMasterKey, aadhaar)),
                           1, TokenHexLength)]

\* An encryptAadhaar that encrypts the number itself.
encryptAadhaarRaw(aadhaar, iv) ==
    LET t == tokenizeAadhaar(aadhaar)
        ciphertext == GcmEncrypt(getMasterKey, iv, aadhaar)
    IN  IF t.error # "none" THEN [error |-> t.error, encrypted |-> << >>]
        ELSE [error |-> "none",
              encrypted |-> iv \o GcmTag(getMasterKey, iv, ciphertext)
                               \o ciphertext]

\* encryptAadhaar(aadhaar) with the random iv.
encryptAadhaar(aadhaar, iv) ==
    LET t == tokenizeAadhaar(aadhaar)
        ciphertext == GcmEncrypt(getMasterKey, iv, t.token)
    IN  IF t.error # "none" THEN [error |-> t.error, encrypted |-> << >>]
        ELSE [error |-> "none",
              encrypted |-> iv \o GcmTag(getMasterKey, iv, ciphertext)
                               \o ciphertext]

\* hashAadhaar(aadhaar): the hash of the token.
hashAadhaar(aadhaar) ==
    LET t == tokenizeAadhaar(aadhaar)
    IN  IF t.error # "none" THEN [error |-> t.error, hash |-> << >>]
        ELSE [error |-> "none", hash |-> Sha256Hex(t.token)]

\* decryptAadhaar(encryptedBuffer): the token, or an error.
decryptAadhaar(encryptedBuffer) ==
    LET iv == SubSeq(encryptedBuffer, 1, IvBytes)
        authTag == SubSeq(encryptedBuffer, IvBytes + 1, IvBytes + TagBytes)
        ciphertext == SubSeq(encryptedBuffer, IvBytes + TagBytes + 1,
                             Len(encryptedBuffer))
        d == GcmDecrypt(getMasterKey, iv, authTag, ciphertext)
    IN  IF Len(encryptedBuffer) < IvBytes + TagBytes
        THEN [error |-> "Invalid encrypted Aadhaar buffer", text |-> << >>]
        ELSE IF d.ok THEN [error |-> "none", text |-> d.plaintext]
        ELSE [error |-> "Unsupported state or unable to authenticate data",
              text |-> << >>]

\* encryptForStorage(aadhaar): encryptAadhaar, then hashAadhaar.
encryptForStorage(aadhaar, iv) ==
    LET e == encryptAadhaar(aadhaar, iv)
        h == hashAadhaar(aadhaar)
    IN  IF e.error # "none"
        THEN [error |-> e.error, encrypted |-> << >>, hash |-> << >>]
        ELSE [error |-> h.error, encrypted |-> e.encrypted, hash |-> h.hash]

\* verifyAadhaarHash(aadhaar, storedHash): timingSafeEqual throws a
\* RangeError for buffers of different lengths.
verifyAadhaarHash(aadhaar, storedHash) ==
    LET h == hashAadhaar(aadhaar)
        eq == timingSafeEqual(h.hash, storedHash)
    IN  IF h.error # "none" THEN [error |-> h.error, result |-> FALSE]
        ELSE IF eq = "throws"
        THEN [error |-> "Input buffers must have the same byte length",
              result |-> FALSE]
        ELSE [error |-> "none", result |-> eq = "true"]

\* The identity numbers given to the service: two numbers of 12 digits
\* with the same digits in another order, a third number, 11 and 13
\* digits, a letter among the digits, a trailing newline, the empty string.
Digits(n, c) == [i \in 1..n |-> c]
ValidAadhaars ==
    {Digits(AadhaarDigits - 2, 49) \o <<50, 51>>,
     Digits(AadhaarDigits - 2, 49) \o <<51, 50>>,
     Digits(AadhaarDigits, 52)}
InvalidAadhaars ==
    {Digits(AadhaarDigits - 1, 49), Digits(AadhaarDigits + 1, 49),
     Digits(AadhaarDigits - 1, 49) \o <<120>>,
     Digits(AadhaarDigits, 49) \o <<10>>, << >>}
Aadhaars == ValidAadhaars \cup InvalidAadhaars

AadhaarOps == {"tokenize", "encrypt", "hash", "encryptForStorage",
               "verifyAgainstHash"}

\* The outcome of one call: the error thrown ("none" if it returned) and
\* what it returned.
AadhaarCall(op, aadhaar, iv, storedHash) ==
    LET none == [token |-> << >>, encrypted |-> << >>, hash |-> << >>,
                 result |-> FALSE]
        base == [op |-> op, aadhaar |-> aadhaar, iv |-> iv]
    IN  CASE op = "tokenize" ->
               LET r == tokenizeAadhaar(aadhaar)
               IN  base @@ [error |-> r.error,
                            out |-> [none EXCEPT !.token = r.token]]
          [] op = "encrypt" ->
               LET r == encryptAadhaar(aadhaar, iv)
               IN  base @@ [error |-> r.error,
                            out |-> [none EXCEPT !.encrypted = r.encrypted]]
          [] op = "hash" ->
               LET r == hashAadhaar(aadhaar)
               IN  base @@ [error |-> r.error,
                            out |-> [none EXCEPT !.hash = r.hash]]
          [] op = "encryptForStorage" ->
               LET r == encryptForStorage(aadhaar, iv)
               IN  base @@ [error |-> r.error,
                            out |-> [none EXCEPT !.encrypted = r.encrypted,
                                                 !.hash = r.hash]]
          [] op = "verifyAgainstHash" ->
               LET r == verifyAadhaarHash(aadhaar, storedHash)
               IN  base @@ [error |-> r.error,
                            out |-> [none EXCEPT !.result = r.result]]

\* One call of the service; verifyAgainstHash is given the hash of a
\* registered number.  The model follows a first call and a second one.
CallAadhaar(op, aadhaar, iv, registered) ==
    /\ idCalls = << >> \/ Len(idCalls) = 1
    /\ idCalls' = Append(idCalls,
                         AadhaarCall(op, aadhaar, iv,
                                     hashAadhaar(registered).hash))
    /\ UNCHANGED <<lastCheck, coreState, boot, pii, batch, patientState, pwCall>>


(***************************************************************************)
(* POST /api/patients and GET /api/patients/:id/aadhaar.  The handler      *)
(* looks the hash up, then creates the row; requests interleave at the     *)
(* awaits.  The prisma schema is not part of the sources: either           *)
(* aadhaarHash is declared unique, or findUnique({ where: { aadhaarHash }})*)
(* is rejected by the client.                                              *)
(***************************************************************************)
\* A table without the unique index.
NoUniqueViolation(hash) == FALSE

\* prisma.patient.create is rejected (P2002) when a row holds the hash.
UniqueViolation(hash) ==
    \E i \in DOMAIN patients : patients[i].aadhaarHash = hash

\* validateRequest(createPatientSchema) and line 53: the hash of the number.
CreateStart(q, aadhaar) ==
    /\ creates[q].pc = "idle"
    /\ creates' =
          [creates EXCEPT ![q] =
             IF ~validateAadhaarFormat(aadhaar)
             THEN [NoCreate EXCEPT !.pc = "done", !.aadhaar = aadhaar,
                                   !.status = 400]
             ELSE [NoCreate EXCEPT !.pc = "lookup", !.aadhaar = aadhaar,
                                   !.aadhaarHash = hashAadhaar(aadhaar).hash]]
    /\ UNCHANGED <<lastCheck, coreState, boot, pii, batch, idCalls, schemaUnique,
                   patients, lastView, pwCall>>

\* Lines 54-61: findUnique, and 409 when a row is found.
CreateLookup(q) ==
    /\ creates[q].pc = "lookup"
    /\ creates' =
          [creates EXCEPT ![q] =
             IF ~schemaUnique THEN [@ EXCEPT !.pc = "done", !.status = 500]
             ELSE IF \E i \in DOMAIN patients :
                        patients[i].aadhaarHash = creates[q].aadhaarHash
             THEN [@ EXCEPT !.pc = "done", !.status = 409]
             ELSE [@ EXCEPT !.pc = "insert"]]
    /\ UNCHANGED <<lastCheck, coreState, boot, pii, batch, idCalls, schemaUnique,
                   patients, lastView, pwCall>>

\* Lines 63-88: encryptForStorage, encryptPII of the name (one name, one
\* iv for both), prisma.patient.create; 201, or 500 when create rejects.
CreateInsert(q, iv) ==
    /\ creates[q].pc = "insert"
    /\ LET stored == encryptForStorage(creates[q].aadhaar, iv)
           rejected == UniqueViolation(stored.hash)
       IN  /\ creates' =
                 [creates EXCEPT ![q] =
                    [@ EXCEPT !.pc = "done", !.iv = iv,
                              !.encrypted = stored.encrypted,
                              !.hash = stored.hash,
                              !.status = IF rejected THEN 500 ELSE 201]]
           /\ patients' =
                 IF rejected THEN patients
                 ELSE Append(patients,
                             [aadhaarEncrypted |-> stored.encrypted,
                              aadhaarHash |-> stored.hash,
                              nameEncrypted |->
                                 encryptPII(<<65>>, "undefined", iv).buffer,
                              consentGiven |-> TRUE, by |-> q])
    /\ UNCHANGED <<lastCheck, coreState, boot, pii, batch, idCalls, schemaUnique,
                   lastView, pwCall>>

\* GET /api/patients/:id/aadhaar, lines 149-164: the handler, for a row.
ViewAadhaarToken(row) ==
    /\ row \in DOMAIN patients
    /\ LET r == decryptAadhaar(patients[row].aadhaarEncrypted)
       IN  lastView' = [row |-> row, error |-> r.error,
                        aadhaarToken |-> r.text]
    /\ UNCHANGED <<lastCheck, coreState, boot, pii, batch, idCalls, schemaUnique,
                   patients, creates, pwCall>>


(***************************************************************************)
(* AuthService.hashPassword and verifyPassword: PBKDF2 with HMAC-SHA512,   *)
(* stored as saltHex:hashHex.  PBKDF2 uses the password as the HMAC key,   *)
(* and HMAC pads a key with zero bytes to the block of the hash (128       *)
(* bytes for SHA-512; HmacBlockBytes in the model) and replaces a longer   *)
(* key by its digest.                                                      *)
(***************************************************************************)
HmacBlockBytes == 3

\* SHA-512 of a key longer than the block, as bytes.
KeyDigest(key) == <<(SumSeq(key) + 1) % 256, (SumSeq(key) + 2) % 256>>

\* The key HMAC works with.
HmacKey(key) ==
    LET short == IF Len(key) > HmacBlockBytes THEN KeyDigest(key) ELSE key
    IN  [i \in 1..HmacBlockBytes |-> IF i <= Len(short) THEN short[i] ELSE 0]

\* crypto.pbkdf2(password, salt, iterations, 64, 'sha512'), in hex: a
\* value that the HMAC key and the salt determine, and that determines them.
Pbkdf2Hex(password, salt) == [key |-> HmacKey(password), salt |-> salt]

\* hashPassword(password) with the random salt.
hashPassword(password, salt) ==
    [saltHex |-> HexEncode(salt), hashHex |-> Pbkdf2Hex(password, salt)]

\* verifyPassword(password, storedHash); the two buffers given to
\* timingSafeEqual have the same length.
verifyPassword(password, storedHash) ==
    IF storedHash.saltHex = << >> THEN FALSE
    ELSE Pbkdf2Hex(password, HexDecode(storedHash.saltHex)) = storedHash.hashHex

\* The passwords: strings with and without NUL characters at the end, and
\* one that is longer than the block, with its digest.
Passwords ==
    {<< >>, <<0>>, <<80>>, <<80, 0>>, <<81>>, <<80, 81>>, <<80, 81, 0>>,
     <<80, 81, 82, 83>>, KeyDigest(<<80, 81, 82, 83>>)}

HashPassword(password, salt) ==
    /\ ~pwCall.hashed
    /\ pwCall' = [NoPassword EXCEPT !.hashed = TRUE, !.password = password,
                                    !.stored = hashPassword(password, salt)]
    /\ UNCHANGED <<lastCheck, coreState, boot, pii, batch, idCalls, patientState>>

VerifyPassword(attempt) ==
    /\ pwCall.hashed
    /\ pwCall' = [pwCall EXCEPT !.verified = TRUE, !.attempt = attempt,
                                !.result = verifyPassword(attempt, pwCall.stored)]
    /\ UNCHANGED <<lastCheck, coreState, boot, pii, batch, idCalls, patientState>>


(***************************************************************************)
(* The specifications, one per subsystem.                                  *)
(***************************************************************************)
InitDispense ==
    /\ InitConsentVars
    /\ InitAuditVars
    /\ coreConfigured \in BOOLEAN
    /\ pharmacyRole \in BOOLEAN
    /\ medicineCounter = 0
    /\ chainDispensed = {}
    /\ medicineRows = << >>
    /\ dreqs = [r \in Requests |-> IdleRequest]
    /\ dispenseSeq = 0
    /\ successes = [m \in BlockchainIds |-> 0]
    /\ everDispensed = {}
    /\ InitAuthVars
    /\ InitQrVars
    /\ InitRouteVars

NextDispense ==
    \/ \E eventFound \in BOOLEAN : RegisterMedicine(eventFound)
    \/ \E r \in Requests, id \in RowIds : DispenseStart(r, id)
    \/ \E r \in Requests, reachable \in BOOLEAN : DispenseCheck(r, reachable)
    \/ \E r \in Requests, accepted \in BOOLEAN : DispenseSend(r, accepted)
    \/ \E r \in Requests : MineDispenseTx(r)
    \/ \E r \in Requests : DispenseRespond(r)

SpecDispense == InitDispense /\ [][NextDispense]_vars

InitAuth ==
    /\ InitConsentVars /\ InitAuditVars /\ InitDispenseVars /\ InitAuthVars
    /\ InitQrVars
    /\ InitRouteVars

NextAuth ==
    \/ \E u \in AuthUsers : IssueAccess(u)
    \/ \E u \in AuthUsers : IssueRefresh(u)
    \/ \E t \in SessionTokens : VerifyAccess(t)
    \/ \E t \in SessionTokens : VerifyRefresh(t)
    \/ \E t \in AuthClock : AuthTick(t)

SpecAuth == InitAuth /\ [][NextAuth]_vars

InitQr ==
    /\ InitConsentVars /\ InitAuditVars /\ InitDispenseVars /\ InitAuthVars
    /\ InitQrVars
    /\ InitRouteVars

NextQr ==
    \/ \E m \in QrMedicines, n \in QrNonces, r \in ResourceTypes, iv \in QrIvs :
          CreateQr([medicineId |-> NumberValue(m), nonce |-> Absent], n, r, iv)
    \/ \E pos \in 1..Len(qrCreated.token), mask \in MutationMasks,
          r \in ResourceTypes : QrVerifyUnpack(pos, mask, r)
    \/ QrVerifySignature
    \/ QrVerifyDecrypt
    \/ QrVerifyReturn

SpecQr == InitQr /\ [][NextQr]_vars

\* Every subsystem at rest.
InitApp ==
    /\ InitConsentVars /\ InitAuditVars /\ InitDispenseVars /\ InitAuthVars
    /\ InitQrVars
    /\ InitRouteVars

NextPii ==
    \/ \E data \in PiiTexts, userId \in PiiUserIds, iv \in QrIvs :
          EncryptField(data, userId, iv)
    \/ \E pos \in 1..Len(pii.buffer), mask \in ByteMasks,
          keep \in 0..Len(pii.buffer), userId \in PiiUserIds :
          DecryptField(pos, mask, keep, userId)

SpecPii == InitApp /\ [][NextPii]_vars

\* The iv matters to the calls that encrypt, the registered number to
\* verifyAgainstHash.
NextAadhaar ==
    \E op \in AadhaarOps, aadhaar \in Aadhaars :
       \E iv \in IF op \in {"encrypt", "encryptForStorage"} THEN QrIvs
                  ELSE {[i \in 1..IvBytes |-> 171]},
          registered \in IF op = "verifyAgainstHash" THEN ValidAadhaars
                          ELSE {Digits(AadhaarDigits, 52)} :
          CallAadhaar(op, aadhaar, iv, registered)

SpecAadhaar == InitApp /\ [][NextAadhaar]_vars

InitPatients ==
    /\ InitConsentVars /\ InitAuditVars /\ InitDispenseVars /\ InitAuthVars
    /\ InitQrVars
    /\ lastRevoke = NoRevoke
    /\ lastRequest = NoRequest
    /\ InitAppVars
    /\ schemaUnique \in BOOLEAN

NextPatients ==
    \/ \E q \in CreateRequests, aadhaar \in ValidAadhaars
                                           \cup {Digits(AadhaarDigits - 1, 49)} :
          CreateStart(q, aadhaar)
    \/ \E q \in CreateRequests : CreateLookup(q)
    \/ \E q \in CreateRequests, iv \in QrIvs : CreateInsert(q, iv)
    \/ \E row \in 1..Len(patients) : ViewAadhaarToken(row)

SpecPatients == InitPatients /\ [][NextPatients]_vars

NextPassword ==
    \/ \E password \in Passwords, salt \in QrIvs : HashPassword(password, salt)
    \/ \E attempt \in Passwords : VerifyPassword(attempt)

SpecPassword == InitApp /\ [][NextPassword]_vars

NextBatch ==
    \/ \E fields \in FieldMaps, userId \in PiiUserIds,
          ivs \in [FieldNames -> QrIvs] : EncryptFields(fields, userId, ivs)
    \/ DecryptFields

SpecBatch == InitApp /\ [][NextBatch]_vars

NextBoot ==
    \/ \E env \in EnvChoices : LoadEnvironment(env)
    \/ ImportRoutes
    \/ ValidateEnvironment
    \/ \E connected \in BOOLEAN : ConnectDatabase(connected)
    \/ Listen

SpecBoot == InitApp /\ [][NextBoot]_vars

\* The payloads given to generateSecureToken: a member that is a number, a
\* string or a Date, with or without a member named nonce.
QrPayloads ==
    {[medicineId |-> x, nonce |-> n] :
        x \in {NumberValue(m) : m \in QrMedicines}
               \cup {StringValue(m) : m \in QrMedicines}
               \cup {DateValue(m) : m \in QrMedicines},
        n \in {Absent} \cup {StringValue(m) : m \in QrMedicines \cup QrNonces}}

\* generateSecureToken and verifyToken on the token as it was returned.
NextQrRoundTrip ==
    \/ \E data \in QrPayloads, n \in QrNonces, r \in ResourceTypes, iv \in QrIvs :
          CreateQr(data, n, r, iv)
    \/ \E r \in ResourceTypes : QrVerifyUnpack(1, 0, r)
    \/ QrVerifySignature
    \/ QrVerifyDecrypt
    \/ QrVerifyReturn

SpecQrRoundTrip == InitQr /\ [][NextQrRoundTrip]_vars

\* The BlockchainService constructor: with or without the contract settings.
InitAudit ==
    /\ InitConsentVars
    /\ ledgerConfigured \in BOOLEAN
    /\ AuditStoreEmpty
    /\ InitDispenseVars
    /\ InitAuthVars
    /\ InitQrVars
    /\ InitRouteVars

NextAudit ==
    \/ \E u \in AuditUsers, a \in AuditActions, r \in AuditResourceIds :
          LogAudit(u, a, "patient", r)
    \/ \E id \in AuditIds, answer \in {"sent", "error"} : LedgerAnswers(id, answer)
    \/ \E id \in AuditIds : BackFill(id)
    \/ \E id \in AuditIds : MineAuditTx(id)
    \/ \E id \in AuditIds : DropAuditTx(id)
    \/ \E id \in AuditIds, reachable \in BOOLEAN : VerifyIntegrity(id, reachable)

SpecAudit == InitAudit /\ [][NextAudit]_vars

\* The audit subsystem with the progress the event loop guarantees: once
\* logAuditToBlockchain has answered, the continuation of logCriticalAudit
\* runs, and without a contract logAuditToBlockchain answers by itself.
\* Nothing makes a configured ledger answer, and no timer is armed on the
\* call.
SpecAuditFair ==
    /\ InitAudit
    /\ [][NextAudit]_vars
    /\ \A id \in AuditIds : WF_vars(BackFill(id))
    /\ \A id \in AuditIds :
          WF_vars(~ledgerConfigured /\ \E answer \in {"sent", "error"} :
                                         LedgerAnswers(id, answer))

InitConsent ==
    /\ InitConsentVars /\ InitAuditVars /\ InitDispenseVars /\ InitAuthVars
    /\ InitQrVars
    /\ InitRouteVars

NextConsent ==
    \/ \E p \in Patients, u \in Users, s \in GrantScopeChoices, ttl \in TtlChoices :
          GrantConsent(p, u, s, ttl)
    \/ \E id \in ConsentIds : RevokeConsent(id)
    \/ \E id \in ConsentIds : RevokeMissing(id)
    \/ \E c \in Callers, t \in PresentableTokens, r \in RequiredChoices :
          VerifyStart(c, t, r)
    \/ \E c \in Callers : VerifyLoad(c)
    \/ \E c \in Callers : VerifyFinish(c)
    \/ \E c \in Callers : VerifyReturn(c)
    \/ Tick

SpecConsent == InitConsent /\ [][NextConsent]_vars

\* The consent store under its two writing routes.
NextConsentStore ==
    \/ \E p \in Patients, u \in Users, s \in GrantScopeChoices, ttl \in TtlChoices :
          GrantConsent(p, u, s, ttl)
    \/ \E id \in ConsentIds : RevokeRoute(id)
    \/ Tick

SpecConsentStore == InitConsent /\ [][NextConsentStore]_vars

\* The consent store under its writing routes and the direct consent check.
NextConsentCheck ==
    \/ \E p \in Patients, u \in Users, s \in GrantScopeChoices, ttl \in TtlChoices :
          GrantConsent(p, u, s, ttl)
    \/ \E id \in ConsentIds : RevokeRoute(id)
    \/ \E p \in Patients, u \in Users, r \in RequiredChoices,
          picked \in {0} \cup ConsentIds :
          CheckDirect(p, u, r, picked)
    \/ Tick

SpecConsentCheck == InitConsent /\ [][NextConsentCheck]_vars

\* The audited routes over the consent store and the audit store.
NextRoutes ==
    \/ \E p \in Patients, u \in Users, s \in GrantScopeChoices, ttl \in TtlChoices :
          GrantConsent(p, u, s, ttl)
    \/ \E id \in ConsentIds : RevokeRoute(id)
    \/ \E u \in Users, p \in Patients, picked \in {0} \cup ConsentIds,
          found \in BOOLEAN, decrypted \in BOOLEAN :
          ViewAadhaar(u, p, picked, found, decrypted)
    \/ \E u \in Users, role \in Roles, valid \in BOOLEAN, created \in BOOLEAN :
          CreatePrescription(u, role, valid, created)

SpecRoutes == InitAudit /\ [][NextRoutes]_vars

(***************************************************************************)
(* Claims about consent tokens.                                            *)
(***************************************************************************)
DoneCalls == {c \in Callers : vcalls[c].pc = "done"}

\* C1: a verify that starts after revoke(g) has completed never returns
\* valid, whatever token naming g and whatever scopes it is given; for a
\* token issued for g whose embedded expiry had not elapsed when the verify
\* started, the reason is "revoked".
C1_VerifyAfterRevokeFails ==
    \A c \in DoneCalls :
        vcalls[c].afterRevoke =>
            /\ ~vcalls[c].result.valid
            /\ (vcalls[c].token \in issued /\ vcalls[c].live)
                   => vcalls[c].result.error = "Consent has been revoked"

C1_Witness ==
    \E c \in DoneCalls :
        /\ vcalls[c].afterRevoke
        /\ vcalls[c].token \in issued
        /\ vcalls[c].live
        /\ vcalls[c].result.error = "Consent has been revoked"

\* The row a finished verify decided on is the persisted one (the stored
\* row, revoked or not yet revoked at the time it was read).
RowIsPersisted(call) ==
    /\ call.found
    /\ call.row.id \in DOMAIN consents
    /\ [consents[call.row.id] EXCEPT !.revoked = call.row.revoked] = call.row

\* C2 as stated: verify returns valid only if the persisted grant exists,
\* is not revoked, has an expiresAt still in the future at the time of the
\* check, and its scopes include every required scope.
C2_ValidOnlyIfPersistedFuture ==
    \A c \in DoneCalls :
        vcalls[c].result.valid =>
            /\ RowIsPersisted(vcalls[c])
            /\ ~vcalls[c].row.revoked
            /\ vcalls[c].row.expiresAt > vcalls[c].checkedAt
            /\ vcalls[c].required \subseteq vcalls[c].row.scopes

\* C2 amended: as above, with an expiresAt that is not yet past at the time
\* of the check (the instant expiresAt itself is still accepted).
C2_ValidOnlyIfPersistedNotPast ==
    \A c \in DoneCalls :
        vcalls[c].result.valid =>
            /\ RowIsPersisted(vcalls[c])
            /\ ~vcalls[c].row.revoked
            /\ vcalls[c].row.expiresAt >= vcalls[c].checkedAt
            /\ vcalls[c].required \subseteq vcalls[c].row.scopes
            /\ vcalls[c].result.scopes = consents[vcalls[c].row.id].scopes

C2_Witness ==
    \E c \in DoneCalls :
        /\ vcalls[c].result.valid
        /\ vcalls[c].token \in issued
        /\ vcalls[c].row.expiresAt = vcalls[c].checkedAt

\* The reason the claimed order of checks gives for a finished call.
FirstFailingCheck(call) ==
    IF call.token \notin issued THEN "Invalid consent token"
    ELSE IF ~call.live THEN "Consent token expired"
    ELSE IF ~call.found THEN "Consent not found"
    ELSE IF call.row.revoked THEN "Consent has been revoked"
    ELSE IF call.checkedAt > call.row.expiresAt THEN "Consent has expired"
    ELSE IF ~(call.required \subseteq call.row.scopes) THEN "Insufficient consent scopes"
    ELSE "none"

\* C10: consent verify checks token signature/expiry, then the grant's
\* existence, revocation, persisted expiry and scopes, in this order; it
\* reports the first failing check with a reason of its own and always
\* returns a structured result.
C10_FirstFailingCheckReported ==
    \A c \in DoneCalls :
        /\ vcalls[c].result.error = FirstFailingCheck(vcalls[c])
        /\ vcalls[c].result.valid <=> (vcalls[c].result.error = "none")

C10_Witness ==
    \E c \in DoneCalls :
        /\ vcalls[c].token \in issued
        /\ vcalls[c].row.revoked
        /\ vcalls[c].checkedAt > vcalls[c].row.expiresAt
        /\ ~(vcalls[c].required \subseteq vcalls[c].row.scopes)
        /\ vcalls[c].result.error = "Consent has been revoked"

(***************************************************************************)
(* Claims about the audit trail.                                           *)
(***************************************************************************)
\* C3: logAudit returns the id of an entry that is already persisted,
\* without waiting for the ledger, for critical and other actions alike; an
\* entry whose ledger submission failed or has not been answered stays
\* retrievable.
C3_EntryPersistedWhateverTheLedger ==
    \A id \in 1..auditSeq :
        /\ id \in auditReturned
        /\ id \in DOMAIN auditLogs
        /\ auditLogs[id].action \in AuditActions

C3_Witness ==
    \E id \in 1..auditSeq :
        /\ isCriticalAction(auditLogs[id].action)
        /\ submission[id].pc = "failed"
        /\ id \in errorLog
        /\ id \in auditReturned
        /\ \E other \in 1..auditSeq : submission[other].pc = "calling"

\* C4: for an entry with a ledger reference, verifyIntegrity reports
\* "mismatch / tampered" only when the ledger returned a stored hash and
\* that hash differs from the recomputed local hash.
C4_MismatchOnlyOnStoredHash ==
    (integrity.called /\ integrity.hadRef
        /\ integrity.error = "Hash mismatch - data may be tampered")
    => (integrity.ledgerAnswered /\ integrity.blockchainHash # integrity.localHash)

\* C5: an audit entry carries a ledger reference only if its action is
\* critical and the ledger accepted a submit for its id and returned that
\* reference.
C5_ReferenceOnlyFromLedger ==
    \A id \in DOMAIN auditLogs :
        auditLogs[id].blockchainTxHash # NoTx =>
            /\ isCriticalAction(auditLogs[id].action)
            /\ id \in DOMAIN ledgerIssued
            /\ ledgerIssued[id] = auditLogs[id].blockchainTxHash


(***************************************************************************)
(* Claims about medicine dispensing.                                       *)
(***************************************************************************)

\* C9: double dispensing is prevented.  For every medicine at most one
\* dispense request is ever answered with success, whatever the interleaving
\* of concurrent requests; a medicine that was dispensed stays dispensed;
\* and a request that arrived when the medicine was already dispensed is
\* never answered with success.
C9_AtMostOneDispense ==
    /\ \A m \in BlockchainIds : successes[m] <= 1
    /\ \A m \in BlockchainIds : successes[m] = 1 => m \in chainDispensed
    /\ everDispensed \subseteq chainDispensed
    /\ \A r \in Requests :
          dreqs[r].pc = "done" /\ dreqs[r].sawDispensed => dreqs[r].status # 200

\* Two requests for one medicine were in flight together: one was answered
\* with success, the other, which had passed the flag check, was rejected.
C9_Witness ==
    \E r1, r2 \in Requests :
        /\ r1 # r2
        /\ dreqs[r1].blockchainId = dreqs[r2].blockchainId
        /\ dreqs[r1].pc = "done" /\ dreqs[r1].status = 200
        /\ dreqs[r2].pc = "done" /\ dreqs[r2].status = 500
        /\ ~dreqs[r2].sawDispensed
        /\ successes[dreqs[r1].blockchainId] = 1


(***************************************************************************)
(* Claims about session tokens.                                            *)
(***************************************************************************)

\* C8: a token returned by generateAccessToken (generateRefreshToken) and
\* presented to verifyAccessToken (verifyRefreshToken) before its lifetime
\* has elapsed is accepted, and the call returns the identity the token was
\* issued for.
C8_IssuedTokenVerifies ==
    \A s \in sessionTokens :
        (/\ authCheck.kind = s.kind
         /\ authCheck.token = s.token
         /\ authCheck.at < s.issuedAt + (IF s.kind = "access"
                                           THEN JWT_ACCESS_EXPIRY
                                           ELSE JWT_REFRESH_EXPIRY))
        => (authCheck.outcome.message = "ok" /\ authCheck.outcome.decoded = s.user)


(***************************************************************************)
(* Claims about QR tokens.                                                 *)
(***************************************************************************)

\* C6: a token that differs from the one generateSecureToken returned (here
\* in one character) is never accepted by verifyToken.
C6_MutatedTokenRejected ==
    (qrCall.pc = "done" /\ qrCall.token # qrCreated.token) => ~qrCall.ok

\* C7: the decryption step is started only for a call whose recomputed
\* signature over iv, tag and ciphertext has matched the presented one; a
\* call whose signature does not match never reaches the decryption step.
C7_DecryptOnlyAfterSignature ==
    (qrCall.pc = "decrypt" \/ qrCall.decryptStarted)
        => /\ qrCall.signatureMatched
           /\ HexDecode(qrCall.signature)
                = HmacSha512(DeriveKey("QR_SIGN", qrCall.resourceType),
                             qrCall.iv, qrCall.tag, qrCall.encrypted)

\* A call has decrypted a token and returned its payload.
C7_Witness ==
    /\ qrCall.pc = "done"
    /\ qrCall.decryptStarted
    /\ qrCall.ok
    /\ qrCall.data = qrCreated.object


(***************************************************************************)
(* Claims about the consent store.                                         *)
(***************************************************************************)

\* C11: no step deletes a grant, clears its revoked flag or changes its
\* patientId, grantedTo, scopes or expiresAt; a step that changes an
\* existing grant is a revoke of that grant and only sets the flag.
C11_GrantsOnlyRevoked ==
    [][/\ Len(consents') >= Len(consents)
       /\ \A id \in DOMAIN consents :
            \/ consents'[id] = consents[id]
            \/ /\ consents'[id] = [consents[id] EXCEPT !.revoked = TRUE]
               /\ revokeCompleted' = revokeCompleted \cup {id}]_vars

\* A grant has been revoked while a second grant is in the store.
C11_Witness ==
    /\ Len(consents) = MaxConsents
    /\ \E id \in DOMAIN consents : consents[id].revoked /\ id \in revokeCompleted
    /\ \E id \in DOMAIN consents : ~consents[id].revoked

\* C12: a revoke of a grant that is already revoked is answered with
\* success, and the grants it found in the store are as they were.
C12_RevokeIdempotent ==
    (lastRevoke.id \in DOMAIN lastRevoke.before
        /\ lastRevoke.before[lastRevoke.id].revoked)
    => /\ lastRevoke.status = 200
       /\ SubSeq(consents, 1, Len(lastRevoke.before)) = lastRevoke.before

\* The latest revoke found its grant already revoked.
C12_Witness ==
    /\ lastRevoke.id \in DOMAIN lastRevoke.before
    /\ lastRevoke.before[lastRevoke.id].revoked
    /\ lastRevoke.status = 200

\* C13: a step creates a grant or issues a token only for a request with a
\* non-empty scope set and at most 1440 minutes; it then creates exactly one
\* grant, not revoked, and one token for it.  A request with an empty scope
\* set or a longer lifetime is answered 400 and changes neither.
C13_GrantOnlyWhenValid ==
    [][/\ (consents' # consents /\ Len(consents') > Len(consents)) \/ issued' # issued
          => /\ lastGrant'.status = 201
             /\ lastGrant'.scopes # {}
             /\ lastGrant'.ttl <= MAX_EXPIRY_MINUTES
             /\ Len(consents') = Len(consents) + 1
             /\ lastGrant'.consentId = Len(consents')
             /\ ~consents'[Len(consents')].revoked
             /\ consents'[Len(consents')].scopes = lastGrant'.scopes
             /\ \E t \in issued' \ issued :
                    t.claims.payload.consentId = Len(consents')
       /\ (lastGrant'.scopes = {} \/ lastGrant'.ttl > MAX_EXPIRY_MINUTES)
          => /\ lastGrant'.status # 201
             /\ (lastGrant' # lastGrant => consents' = consents /\ issued' = issued)
      ]_vars

\* A request with an empty scope set or too long a lifetime was answered 400
\* after an earlier request had created a grant.
C13_Witness ==
    /\ lastGrant.status = 400
    /\ (lastGrant.scopes = {} \/ lastGrant.ttl > MAX_EXPIRY_MINUTES)
    /\ Len(consents) >= 1
    /\ issued # {}


\* C14: verifyAuditIntegrity on an existing entry that has no ledger
\* reference (the call found the entry, and the entry has none to this day)
\* answers valid, with the recomputed local hash and the note "Not logged to
\* blockchain"; it reports no mismatch and consults no ledger.
C14_UnanchoredEntryIsValid ==
    (/\ integrity.called
     /\ integrity.error # "Audit log not found"
     /\ integrity.auditId \in DOMAIN auditLogs
     /\ auditLogs[integrity.auditId].blockchainTxHash = NoTx)
    => LET row == auditLogs[integrity.auditId]
       IN  /\ integrity.valid
           /\ integrity.error = "Not logged to blockchain"
           /\ integrity.localHash =
                 hashAuditData(row.userId, row.action, row.resourceType,
                               row.resourceId, row.timestamp)
           /\ integrity.blockchainHash = EmptyHash

\* The integrity of a critical entry whose ledger submission failed has been
\* verified.
C14_Witness ==
    /\ integrity.called
    /\ integrity.auditId \in DOMAIN auditLogs
    /\ auditLogs[integrity.auditId].blockchainTxHash = NoTx
    /\ isCriticalAction(auditLogs[integrity.auditId].action)
    /\ integrity.auditId \in errorLog
    /\ integrity.valid


\* C15: a ledger submission that is waiting for the ledger eventually stops
\* waiting: it is answered, or it ends with a logged failure.
C15_SubmissionEnds ==
    \A id \in AuditIds :
        (id \in DOMAIN submission /\ submission[id].pc = "calling")
            ~> (id \in DOMAIN submission /\ submission[id].pc # "calling")


(***************************************************************************)
(* Claims about the audited routes.                                        *)
(***************************************************************************)

\* C16: every request to an audited route leaves an audit entry for its
\* action, whatever its status.
C16_EveryAttemptAudited ==
    lastRequest.status # 0
    => /\ auditSeq > lastRequest.seqBefore
       /\ auditLogs[lastRequest.seqBefore + 1].action = lastRequest.action

\* C17: the audit entry of a created prescription is submitted to the ledger.
C17_PrescriptionSubmitted ==
    \A id \in DOMAIN auditLogs :
        auditLogs[id].resourceType = "prescription" => submission[id].pc # "none"


\* C18: no step deletes an audit entry or changes its userId, action,
\* resourceType, resourceId or timestamp; the only change to an entry is
\* that its ledger reference goes from absent to set.
C18_EntriesImmutable ==
    [][\A id \in DOMAIN auditLogs :
          /\ id \in DOMAIN auditLogs'
          /\ \/ auditLogs'[id] = auditLogs[id]
             \/ /\ auditLogs[id].blockchainTxHash = NoTx
                /\ auditLogs'[id].blockchainTxHash # NoTx
                /\ auditLogs'[id] =
                      [auditLogs[id] EXCEPT
                         !.blockchainTxHash = auditLogs'[id].blockchainTxHash]]_vars

\* One entry has had its reference back-filled and a later entry exists.
C18_Witness ==
    /\ Len(auditLogs) = MaxAudit
    /\ \E id \in DOMAIN auditLogs :
          /\ auditLogs[id].blockchainTxHash # NoTx
          /\ submission[id].pc = "backfilled"
          /\ auditLogs[id].timestamp < now - 1


(***************************************************************************)
(* Claims about the QR round trip.                                         *)
(***************************************************************************)

\* verifyToken has returned from a call on the token generateSecureToken
\* returned, for the resource type it was created for.
RoundTripDone ==
    /\ qrCreated # NoQr
    /\ qrCall.pc = "done"
    /\ qrCall.token = qrCreated.token
    /\ qrCall.resourceType = qrCreated.resourceType

\* The call succeeded and returned the member of the payload as it was
\* given, with the nonce and the timestamp generateSecureToken added.
RoundTripReturnsPayload ==
    /\ qrCall.ok
    /\ qrCall.data.medicineId = qrCreated.data.medicineId
    /\ qrCreated.data.nonce # Absent
          => qrCall.data.nonce = qrCreated.data.nonce
    /\ qrCall.data.nonce = qrCreated.object.nonce
    /\ qrCall.data.timestamp = qrCreated.object.timestamp

\* A payload whose member is a JSON value and that has no member named
\* nonce (or timestamp).
JsonPayloadWithoutReservedNames(data) ==
    /\ data.medicineId.type \in {"number", "string"}
    /\ data.nonce = Absent

\* C19 as stated: for every payload p and resource type r,
\* verifyToken(generateSecureToken(p, r), r) succeeds and returns every
\* member of p unchanged, together with the nonce and timestamp added.
C19_RoundTripEveryPayload ==
    RoundTripDone => RoundTripReturnsPayload

\* C19 amended: for every payload p whose members are JSON values (numbers
\* and strings, not Dates) and that has no member named nonce or timestamp,
\* and every resource type r, verifyToken(generateSecureToken(p, r), r)
\* succeeds and returns every member of p unchanged, together with the nonce
\* and timestamp added.
C19_RoundTripJsonPayload ==
    (RoundTripDone /\ JsonPayloadWithoutReservedNames(qrCreated.data))
        => RoundTripReturnsPayload

\* A round trip has returned a string member of such a payload.
C19_Witness ==
    /\ RoundTripDone
    /\ JsonPayloadWithoutReservedNames(qrCreated.data)
    /\ qrCreated.data.medicineId.type = "string"
    /\ qrCall.ok
    /\ qrCall.data.medicineId = qrCreated.data.medicineId

\* C20: verifyToken reports a structurally malformed token and a signature
\* or authentication-tag mismatch as different errors, so the caller can
\* tell the two outcomes apart: a call that failed on the signature or the
\* tag does not carry the error a malformed token gets.
C20_FailuresDistinguishable ==
    (qrCall.pc = "done" /\ qrCall.cause \in {"signature", "tag"})
        => qrCall.error # CaughtError("malformed")


(***************************************************************************)
(* Claims about the start of the server.                                   *)
(***************************************************************************)

\* The master key is exactly 64 hexadecimal characters and the three
\* signing secrets are set.
ConfigurationComplete(env) ==
    /\ env.ENCRYPTION_KEY # Undefined
    /\ Len(env.ENCRYPTION_KEY) = 64
    /\ \A i \in 1..Len(env.ENCRYPTION_KEY) :
          env.ENCRYPTION_KEY[i] \in {48, 49, 50, 51, 52, 53, 54, 55, 56, 57,
                                     65, 66, 67, 68, 69, 70,
                                     97, 98, 99, 100, 101, 102}
    /\ env.JWT_ACCESS_SECRET # Undefined
    /\ env.JWT_REFRESH_SECRET # Undefined
    /\ env.CONSENT_TOKEN_SECRET # Undefined

\* C21: the server listens only if the master key is present and is exactly
\* 64 hexadecimal characters and the access, refresh and consent secrets are
\* present; with any of them absent or the key malformed, the start never
\* gets past the validation of the environment, and the fatal error it ends
\* in is a configuration error.
C21_ListensOnlyWhenConfigured ==
    /\ boot.pc \in {"validated", "connected", "listening"}
          => ConfigurationComplete(boot.env)
    /\ (boot.pc = "fatal" /\ ~ConfigurationComplete(boot.env))
          => boot.error \in {"key", "config"}

\* The server listens.
C21_Witness ==
    /\ boot.pc = "listening"
    /\ ConfigurationComplete(boot.env)


(***************************************************************************)
(* Claims about the encryption of PII fields.                              *)
(***************************************************************************)

\* C22: decryptPII of a field whose ciphertext or tag differs in a bit from
\* what encryptPII produced, or that is decrypted under a different key,
\* fails with the decryption error and returns no plaintext; that error is
\* not the one raised for a buffer shorter than the header (decryptPII) or
\* for an empty plaintext (encryptPII).
C22_TamperedFieldFails ==
    /\ (pii.encrypted /\ pii.data = << >>)
          => pii.encError = "Data to encrypt cannot be empty"
    /\ (pii.decrypted /\ Len(pii.presented) < IvBytes + TagBytes)
          => /\ pii.decError = "Invalid encrypted buffer"
             /\ pii.text = << >>
    /\ (/\ pii.decrypted
        /\ Len(pii.presented) = Len(pii.buffer)
        /\ \/ \E i \in (IvBytes + 1)..Len(pii.buffer) :
                  pii.presented[i] # pii.buffer[i]
           \/ PiiKey(pii.decUserId) # PiiKey(pii.userId))
          => /\ pii.decError
                  = "Decryption failed. Data may be corrupted or tampered with."
             /\ pii.text = << >>

\* A field with a flipped ciphertext bit was presented under the right key
\* and was refused.
C22_Witness ==
    /\ pii.decrypted
    /\ Len(pii.presented) = Len(pii.buffer)
    /\ pii.presented[Len(pii.buffer)] # pii.buffer[Len(pii.buffer)]
    /\ PiiKey(pii.decUserId) = PiiKey(pii.userId)
    /\ pii.decError = "Decryption failed. Data may be corrupted or tampered with."

IsPseudonym(token) ==
    /\ Len(token) = 32
    /\ \A i \in 1..Len(token) :
          token[i] \in (48..57) \cup (97..102) \cup (65..70)

\* Exactly 12 digits.
TwelveDigits(aadhaar) ==
    /\ Len(aadhaar) = 12
    /\ \A i \in 1..Len(aadhaar) : aadhaar[i] \in 48..57

C25_RawNumberNeverStored ==
    /\ \A q1, q2 \in CreateRequests :
          (/\ creates[q1].hash # << >> /\ creates[q2].hash # << >>
           /\ tokenizeAadhaar(creates[q1].aadhaar).token
                 = tokenizeAadhaar(creates[q2].aadhaar).token
           /\ creates[q1].iv = creates[q2].iv)
          => /\ creates[q1].encrypted = creates[q2].encrypted
             /\ creates[q1].hash = creates[q2].hash
    /\ \A i \in DOMAIN patients :
          LET raw == creates[patients[i].by].aadhaar
          IN  /\ patients[i].aadhaarEncrypted = creates[patients[i].by].encrypted
              /\ patients[i].aadhaarHash = creates[patients[i].by].hash
              /\ patients[i].aadhaarEncrypted # raw
              /\ patients[i].aadhaarHash # raw
              /\ patients[i].nameEncrypted # raw
    /\ lastView.row # 0
          => LET raw == creates[patients[lastView.row].by].aadhaar
             IN  /\ lastView.error = "none"
                 /\ lastView.aadhaarToken = tokenizeAadhaar(raw).token
                 /\ lastView.aadhaarToken # raw

\* Two different numbers with the same token have gone through
\* encryptForStorage with the same iv, and the stored buffer has been
\* decrypted.
C25_Witness ==
    /\ creates["c1"].hash # << >> /\ creates["c2"].hash # << >>
    /\ creates["c1"].aadhaar # creates["c2"].aadhaar
    /\ creates["c1"].hash = creates["c2"].hash
    /\ creates["c1"].iv = creates["c2"].iv
    /\ lastView.row # 0
    /\ lastView.aadhaarToken # << >>


(***************************************************************************)
(* Claims about the patient records.                                       *)
(***************************************************************************)

\* C30: after any interleaving of patient-creation requests at most one
\* row exists per lookup hash; a create for a registered number, two
\* concurrent creates for one number included, persists no second row.
C30_OneRowPerLookupHash ==
    \A i, j \in DOMAIN patients :
       patients[i].aadhaarHash = patients[j].aadhaarHash => i = j

\* Two requests for the same number were both past the lookup; one
\* created the row and the other was rejected by the insert.
C30_Witness ==
    /\ creates["c1"].aadhaar = creates["c2"].aadhaar
    /\ creates["c1"].status = 201
    /\ creates["c2"].status = 500
    /\ creates["c2"].hash # << >>
    /\ Len(patients) = 1


(***************************************************************************)
(* Claims about passwords.                                                 *)
(***************************************************************************)

\* C26: for all passwords pw and pw', verifyPassword(pw', hashPassword(pw))
\* is true when pw' = pw and false when pw' differs from pw, whatever salt
\* hashPassword drew.
C26_OnlyThePasswordVerifies ==
    pwCall.verified => (pwCall.result <=> pwCall.attempt = pwCall.password)


(***************************************************************************)
(* Claims about the verification of audit entries.                         *)
(***************************************************************************)

\* C27: for an entry with a ledger reference and a reachable ledger,
\* verifyAuditIntegrity returns valid exactly when the entry's actor,
\* action, resourceType, resourceId and timestamp are those hashed at
\* submission.  No operation modifies them, so every such verification
\* returns valid.
C27_UnmodifiedEntryVerifies ==
    (/\ integrity.called
     /\ integrity.hadRef
     /\ ledgerConfigured
     /\ integrity.reachable)
    => /\ integrity.valid
       /\ integrity.error = "none"


(***************************************************************************)
(* Claims about the direct consent check.                                  *)
(***************************************************************************)
\* The grants of the store checkConsent read that are for the pair, not
\* revoked, not expired, and cover every required scope.
QualifyingGrants ==
    {id \in DOMAIN lastCheck.rows :
        /\ lastCheck.rows[id].patientId = lastCheck.patientId
        /\ lastCheck.rows[id].grantedTo = lastCheck.userId
        /\ ~lastCheck.rows[id].revoked
        /\ lastCheck.rows[id].expiresAt > lastCheck.at
        /\ lastCheck.requiredScopes \subseteq lastCheck.rows[id].scopes}

\* C28: checkConsent(subject, grantee, requiredScopes) answers true exactly
\* when the store holds at least one grant for the pair that is not revoked,
\* not expired, and whose scopes include every required scope, also when
\* several active grants with different scopes exist.
C28_CheckDirectIffQualifyingGrant ==
    lastCheck.called => (lastCheck.result <=> QualifyingGrants # {})


(***************************************************************************)
(* Claims about the resource type of a QR token.                           *)
(***************************************************************************)
\* C29: a token generateSecureToken returned for one resource type is
\* rejected by verifyToken under every other resource type.
C29_OtherResourceTypeRejected ==
    (/\ qrCall.pc = "done"
     /\ qrCall.token = qrCreated.token
     /\ qrCall.resourceType # qrCreated.resourceType)
    => /\ ~qrCall.ok
       /\ qrCall.data = NoObject

\* The token as created was presented under the other resource type, and
\* the call ended at the signature check.
C29_Witness ==
    /\ qrCall.pc = "done"
    /\ qrCreated # NoQr
    /\ qrCall.token = qrCreated.token
    /\ qrCall.resourceType \in ResourceTypes \ {qrCreated.resourceType}
    /\ ~qrCall.signatureMatched
    /\ ~qrCall.ok

=============================================================================
